---- MODULE Spec2Model ----
(***************************************************************************)
(* Verification model of ludtwig.                                          *)
(*                                                                         *)
(* Part 1: the Twig tag productions of                                     *)
(* crates/ludtwig-parser/src/grammar/twig/tags.rs, run by the event based  *)
(* parser core (Parser, parse_many, the expression/literal parsers and the *)
(* tree sink).  The productions are translated statement by statement from *)
(* tags.rs.  The parser core is not part of the checked-in sources; it is  *)
(* modelled from the specification and from the trees and diagnostics that *)
(* the tests of tags.rs pin down.                                          *)
(***************************************************************************)
EXTENDS Integers, Sequences, FiniteSets, TLC

VARIABLES
    tokens,   \* the non-trivia tokens of the source, in order (the parser's input)
    trivia,   \* positions i such that trivia precedes token i (Len+1: trailing trivia)
    p,        \* the Parser: position, event buffer, diagnostics
    pc,       \* where the root production stands: "new", "root", "parsed", "done"
    tree,     \* the syntax tree built by the sink from the events (after "parsed")
    text,     \* part 2: the source text the indentation rule is run on
    config,   \* part 2: the format section of the configuration
    results,  \* part 2: the check results of the last run of the rule
    fixed,    \* part 2: the texts the fixes made so far have produced
    walkers,  \* part 3: the handle_input_path tasks, one per input path
    tasks,    \* part 3: the process_file tasks spawned so far
    disk,     \* part 3: the files created, each with the task that created it
    channel,  \* part 3: the messages sent and not yet received
    received, \* part 3: the messages the output handler has received, in order
    output_handler, \* part 3: the state of the output handler task
    input,    \* part 4: the text handed to vue_block
    res,      \* part 4: what vue_block returned for it
    node,     \* part 5: the HtmlNode handed to print_node
    writer    \* part 5: what print_node has written

\* the variables of the indentation rule and of the file pipeline
lintVars == <<text, config, results, fixed>>
pipeVars == <<walkers, tasks, disk, channel, received, output_handler>>
funVars == <<input, res, node, writer>>

vars == <<tokens, trivia, p, pc, tree, lintVars, pipeVars, funVars>>

----------------------------------------------------------------------------
(* Bounds of the checked inputs.                                           *)

\* longest sequence of arbitrary tokens following an opening "{%"
MaxRaw == 1
\* most fragments (whole tags, text) concatenated into one input
MaxFrags == 3
\* deepest nesting of the openers^n closers^n inputs
MaxNest == 2

----------------------------------------------------------------------------
(* Tokens.                                                                 *)

Keywords ==
    {"block", "endblock", "if", "elseif", "else", "endif", "for", "in",
     "endfor", "set", "endset", "extends", "include", "with", "only", "use",
     "as", "apply", "endapply", "autoescape", "endautoescape", "deprecated",
     "false"}

Punctuation == {"{%", "%}", ",", "=", "|", "(", ")", "'", "ignore missing"}

Kinds == Keywords \cup Punctuation \cup {"word", "number"}

T(k) == [kind |-> k, text |-> k]
W(x) == [kind |-> "word", text |-> x]

\* every token of the model: two different words, everything else by kind
AllTokens == {T(k) : k \in Kinds \ {"word"}} \cup {W("a"), W("b")}

----------------------------------------------------------------------------
(* Parser core: spec.md 4.C, with the behaviour on a mismatch that the     *)
(* tests of tags.rs record.                                                *)

NoName == ""

\* the value of the last of some steps that run one after the other
InOrder(steps) == steps[Len(steps)]

Placeholder == [type |-> "Start", kind |-> "TOMBSTONE", fp |-> 0, tok |-> 0]
TokenEvent(i) == [type |-> "Token", kind |-> "", fp |-> 0, tok |-> i]
FinishNode == [type |-> "Finish", kind |-> "", fp |-> 0, tok |-> 0]

\* Parser::new
NewParser ==
    [pos |-> 1, events |-> <<>>, errors |-> <<>>, ret |-> 0, count |-> 0,
     node |-> 0, assigned |-> 0, iters |-> 0, faults |-> {}, stalled |-> {}]

at_end(q) == q.pos > Len(tokens)

current(q) == IF at_end(q) THEN "EOF" ELSE tokens[q.pos].kind

at(q, k) == current(q) = k

at_set(q, S) == current(q) \in S

at_following(q, ks) ==
    \A i \in 1..Len(ks) :
        /\ q.pos + i - 1 <= Len(tokens)
        /\ tokens[q.pos + i - 1].kind = ks[i]

\* the Marker that the next start() or precede() hands out
next_marker(q) == Len(q.events) + 1

start(q) == [q EXCEPT !.events = Append(@, Placeholder)]

\* bump at the end of the input is a panic of the parser
bump(q) ==
    IF at_end(q)
    THEN [q EXCEPT !.faults = @ \cup {"bump at end"}]
    ELSE [q EXCEPT !.events = Append(@, TokenEvent(q.pos)), !.pos = @ + 1]

\* completing a marker twice, or one that was never handed out, is a fault
complete(q, m, kind) ==
    IF m \in 1..Len(q.events) /\ q.events[m] = Placeholder
    THEN [q EXCEPT !.events = Append([@ EXCEPT ![m].kind = kind], FinishNode),
                   !.ret = m]
    ELSE [q EXCEPT !.faults = @ \cup {"marker completed twice"}]

\* the new marker of precede is next_marker(q)
precede(q, cm) ==
    IF /\ cm \in 1..Len(q.events)
       /\ q.events[cm].type = "Start"
       /\ q.events[cm].kind # "TOMBSTONE"
       /\ q.events[cm].fp = 0
    THEN [q EXCEPT !.events =
              Append([@ EXCEPT ![cm].fp = next_marker(q) - cm], Placeholder)]
    ELSE [q EXCEPT !.faults = @ \cup {"precede of an open marker"}]

\* a function returning None
none(q) == [q EXCEPT !.ret = 0]

\* diagnostics: "expected <msg> but found <found>", placed at the current
\* token, or at the last token when the input has ended
add_error_with(q, msg, args) ==
    [q EXCEPT !.errors =
        Append(@, [msg |-> msg, args |-> args,
                   at |-> IF at_end(q) THEN Len(tokens) ELSE q.pos,
                   found |-> current(q)])]

add_error(q, msg) == add_error_with(q, msg, <<>>)

\* ParseErrorBuilder::at_token
add_error_at(q, msg, args, i) ==
    [q EXCEPT !.errors =
        Append(@, [msg |-> msg, args |-> args, at |-> i,
                   found |-> tokens[i].kind])]

\* tokens at which error recovery never skips
RECOVERY_SET == {"{%", "%}"}

\* wrap one unexpected token into an ERROR node
recover(q) ==
    IF ~at_end(q) /\ ~at_set(q, RECOVERY_SET)
    THEN complete(bump(start(q)), next_marker(q), "ERROR")
    ELSE q

\* as expect, but a mismatch only records the diagnostic: the unexpected token
\* is never consumed (spec.md 4.C as written)
expect_never_consumes(q, k) ==
    IF at(q, k) THEN bump(q) ELSE add_error(q, k)

expect(q, k) ==
    IF at(q, k) THEN bump(q) ELSE recover(add_error(q, k))

----------------------------------------------------------------------------
(* Literal and expression parsers (grammar/twig/literal.rs, expression.rs; *)
(* spec.md 4.D "Expressions").  Only what the tag productions need: names, *)
(* numbers, strings and the pipe operator.  Every one of them returns None *)
(* without consuming a token when the current token cannot start it.       *)

\* a name is a word or any keyword (tests::parse_twig_for_with_missing_variable:
\* `in` is taken as the loop variable)
NameKinds == Keywords \cup {"word"}

RECURSIVE parse_many(_, _), parse_any_element(_), child_closure(_, _)

\* if f(parser).is_none() { parser.add_error(ParseErrorBuilder::new(msg)) }
or_error(q, msg) == IF q.ret = 0 THEN add_error(q, msg) ELSE q

\* if parser.at(kind) { parser.bump(); }
bump_if_at(q, k) == IF at(q, k) THEN bump(q) ELSE q

parse_twig_name(q) ==
    IF at_set(q, NameKinds)
    THEN complete(bump(start(q)), next_marker(q), "TWIG_LITERAL_NAME")
    ELSE none(q)

string_inner_exit(q) == at(q, "'")

string_inner_child(q) == bump(q)

\* everything between the quotes
string_inner(q) ==
    complete(parse_many(start(q), [id |-> "string_inner", enders |-> {}]),
             next_marker(q), "TWIG_LITERAL_STRING_INNER")

parse_twig_string(q) ==
    complete(expect(string_inner(bump(start(q))), "'"),
             next_marker(q), "TWIG_LITERAL_STRING")

\* if parser.at_set(&[T!["\""], T!["'"]]) { parse_twig_string(parser, false); }
\* else { parser.add_error(ParseErrorBuilder::new(msg)) }
string_or_error(q, msg) ==
    IF at_set(q, {"'"}) THEN parse_twig_string(q) ELSE add_error(q, msg)

\* the filter behind the `|`
pipe_filter(q) ==
    complete(or_error(parse_twig_name(start(q)), "twig filter"),
             next_marker(q), "TWIG_OPERAND")

\* `lhs | filter`: TWIG_PIPE{TWIG_OPERAND{lhs}, "|", TWIG_OPERAND{filter}}
parse_twig_pipe(q, lhs) ==
    LET operand_m == next_marker(q)
        p1 == complete(precede(q, lhs), operand_m, "TWIG_OPERAND")
        outer == next_marker(p1)
        p2 == bump(precede(p1, operand_m))
        p3 == pipe_filter(p2)
    IN  complete(p3, outer, "TWIG_PIPE")

RECURSIVE parse_pipes(_)
parse_pipes(q) ==
    IF at(q, "|") THEN parse_pipes(parse_twig_pipe(q, q.ret)) ELSE q

\* a name, a number or a string
parse_twig_literal(q) ==
    IF at_set(q, NameKinds) THEN parse_twig_name(q)
    ELSE IF at(q, "number")
         THEN complete(bump(start(q)), next_marker(q), "TWIG_LITERAL_NUMBER")
    ELSE IF at(q, "'") THEN parse_twig_string(q)
    ELSE none(q)

\* the node parsed last becomes the only child of a new TWIG_EXPRESSION
wrap_expression(q) ==
    complete(precede(q, q.ret), next_marker(q), "TWIG_EXPRESSION")

\* the literal `q` has just parsed, if any, with the filters piped behind it
pipe_expression(q) ==
    IF q.ret = 0 THEN q ELSE wrap_expression(parse_pipes(q))

parse_twig_expression(q) == pipe_expression(parse_twig_literal(q))

parse_twig_function_argument(q) ==
    IF at_following(q, <<"word", "=">>)
    THEN complete(or_error(parse_twig_expression(bump(bump(start(q)))),
                           "twig expression"),
                  next_marker(q), "TWIG_NAMED_ARGUMENT")
    ELSE parse_twig_expression(q)

----------------------------------------------------------------------------
(* The closures handed to parse_many by tags.rs, and parse_many itself.    *)

\* as body_exit, but the body ends in front of any tag
body_exit_at_any_tag(q, enders) == at(q, "{%")

\* body loops: |p| p.at_following(&[T!["{%"], T![end]]) for each end keyword
body_exit(q, enders) == \E k \in enders : at_following(q, <<"{%", k>>)

body_child(q) == parse_any_element(q)

apply_arguments_exit(q) == at_set(q, {"%}", ")"})

apply_arguments_child(q) == bump_if_at(parse_twig_function_argument(q), ",")

apply_filters_exit(q) == at(q, "%}")

\* node = ...: `node` is the filter chain parsed so far
keep_node(q) == [q EXCEPT !.node = q.ret]

apply_filters_child(q) ==
    IF at(q, "|") THEN keep_node(parse_twig_pipe(q, q.node)) ELSE q

use_overrides_exit(q) == at(q, "%}")

use_overrides_child(q) ==
    LET override_m == next_marker(q)
        p1 == [start(q) EXCEPT !.count = @ + 1]
        p2 == or_error(parse_twig_name(p1), "block name")
        p3 == expect(p2, "as")
        p4 == or_error(parse_twig_name(p3), "block name")
        p5 == complete(p4, override_m, "TWIG_USE_OVERRIDE")
    IN  bump_if_at(p5, ",")

set_names_exit(q) == at_set(q, {"=", "%}"})

\* if parse_twig_name(p).is_some() { declaration_count += 1; } else { ... }
count_declaration(q) ==
    IF q.ret # 0 THEN [q EXCEPT !.count = @ + 1]
    ELSE add_error(q, "twig variable name")

set_names_child(q) == bump_if_at(count_declaration(parse_twig_name(q)), ",")

set_expressions_exit(q) == at(q, "%}")

\* if parse_twig_expression(p).is_some() { assignment_count += 1; } else { ... }
count_assignment(q) ==
    IF q.ret # 0 THEN [q EXCEPT !.assigned = @ + 1]
    ELSE add_error(q, "twig expression")

set_expressions_child(q) ==
    bump_if_at(count_assignment(parse_twig_expression(q)), ",")

\* tokens that end a run of text: they start (or end) something else
TEXT_STOP == {"{%", "%}", "{#"}

html_text_exit(q) == at_set(q, TEXT_STOP)

html_text_child(q) == bump(q)

\* a comment ends at its `#}`
comment_exit(q) == at(q, "#}")

comment_child(q) == bump(q)

\* the loop of the root production never exits early
root_exit(q) == FALSE

\* when the child parser consumes nothing, the current token becomes an ERROR
\* node by itself (tests::parse_twig_apply_wrong_type: the stray `%}` at the
\* top level)
recover_unparsed(q, r) ==
    IF r.pos = q.pos THEN complete(bump(start(r)), next_marker(r), "ERROR")
    ELSE r

root_child(q) == recover_unparsed(q, parse_any_element(q))

Body(enders) == [id |-> "body", enders |-> enders]
Loop(id) == [id |-> id, enders |-> {}]

early_exit_closure(q, l) ==
    CASE l.id = "body" -> body_exit(q, l.enders)
      [] l.id = "apply_arguments" -> apply_arguments_exit(q)
      [] l.id = "apply_filters" -> apply_filters_exit(q)
      [] l.id = "use_overrides" -> use_overrides_exit(q)
      [] l.id = "set_names" -> set_names_exit(q)
      [] l.id = "set_expressions" -> set_expressions_exit(q)
      [] l.id = "string_inner" -> string_inner_exit(q)
      [] l.id = "html_text" -> html_text_exit(q)
      [] l.id = "comment" -> comment_exit(q)
      [] l.id = "root" -> root_exit(q)

child_closure(q, l) ==
    CASE l.id = "body" -> body_child(q)
      [] l.id = "apply_arguments" -> apply_arguments_child(q)
      [] l.id = "apply_filters" -> apply_filters_child(q)
      [] l.id = "use_overrides" -> use_overrides_child(q)
      [] l.id = "set_names" -> set_names_child(q)
      [] l.id = "set_expressions" -> set_expressions_child(q)
      [] l.id = "string_inner" -> string_inner_child(q)
      [] l.id = "html_text" -> html_text_child(q)
      [] l.id = "comment" -> comment_child(q)
      [] l.id = "root" -> root_child(q)

\* `stalled` names the loops whose child closure ran from position pos and
\* consumed nothing: the loop's exit closure did not hold there, and the
\* parser is still at the same token
note_progress(pos, r, id) ==
    IF r.pos = pos THEN [r EXCEPT !.stalled = @ \cup {id}] ELSE r

\* one round of the loop of parse_many.  `iters` counts the rounds of every
\* loop of the parser: the child runs here and the rounds of parse_twig_if.
parse_many_round(q, l) ==
    note_progress(q.pos, [child_closure(q, l) EXCEPT !.iters = @ + 1], l.id)

\* Runs the child until the input ends, the exit closure holds, or the child
\* consumed nothing (tests::parse_twig_apply_wrong_type: the BODY before
\* an unparseable `%}` is left empty).
parse_many(q, l) ==
    IF at_end(q) \/ early_exit_closure(q, l) THEN q
    ELSE LET r == parse_many_round(q, l)
         IN  IF r.pos = q.pos THEN r ELSE parse_many(r, l)

----------------------------------------------------------------------------
(* The Twig tag productions of tags.rs.  `outer` is the marker opened in   *)
(* parse_twig_block_statement before the "{%" was bumped.                  *)

\* the keywords parse_twig_block_statement dispatches on
StatementKeywords ==
    {"block", "if", "set", "for", "extends", "include", "use", "apply",
     "autoescape", "deprecated"}

\* let body_m = parser.start(); parse_many(parser, |p| at an ender, child_parser);
\* parser.complete(body_m, SyntaxKind::BODY);
parse_body(q, enders) ==
    complete(parse_many(start(q), Body(enders)), next_marker(q), "BODY")

\* let end_block_m = parser.start(); parser.expect(T!["{%"]);
\* parser.expect(keyword); parser.expect(T!["%}"]);
\* parser.complete(end_block_m, kind);
parse_ending_block(q, keyword, kind) ==
    complete(expect(expect(expect(start(q), "{%"), keyword), "%}"),
             next_marker(q), kind)

parse_twig_deprecated(q, outer) ==
    LET p1 == bump(q)
        p2 == string_or_error(p1, "twig deprecation message as string")
        p3 == expect(p2, "%}")
    IN  complete(p3, outer, "TWIG_DEPRECATED")

\* the escape strategy behind `autoescape`: a string, false or nothing
autoescape_strategy(q) ==
    IF at_set(q, {"'"}) THEN parse_twig_string(q)
    ELSE IF at(q, "false") THEN bump(q)
    ELSE IF ~at(q, "%}")
         THEN add_error(q, "twig escape strategy as string or 'false'")
    ELSE q

\* as parse_twig_autoescape, but the BODY is completed only after the `{%` of
\* the closing tag was taken
parse_twig_autoescape_body_takes_closer(q, outer) ==
    LET body(x) ==
            complete(expect(parse_many(start(x), Body({"endautoescape"})), "{%"),
                     next_marker(x), "BODY")
        ending(x) ==
            complete(expect(expect(start(x), "endautoescape"), "%}"),
                     next_marker(x), "TWIG_AUTOESCAPE_ENDING_BLOCK")
        p1 == bump(q)
        p2 == autoescape_strategy(p1)
        p3 == expect(p2, "%}")
        p4 == complete(p3, outer, "TWIG_AUTOESCAPE_STARTING_BLOCK")
        wrapper_m == next_marker(p4)
        p5 == precede(p4, outer)
        p6 == body(p5)
        p7 == ending(p6)
    IN  complete(p7, wrapper_m, "TWIG_AUTOESCAPE")

parse_twig_autoescape(q, outer) ==
    LET p1 == bump(q)
        p2 == autoescape_strategy(p1)
        p3 == expect(p2, "%}")
        p4 == complete(p3, outer, "TWIG_AUTOESCAPE_STARTING_BLOCK")
        wrapper_m == next_marker(p4)
        p5 == precede(p4, outer)
        p6 == parse_body(p5, {"endautoescape"})
        p7 == parse_ending_block(p6, "endautoescape",
                                 "TWIG_AUTOESCAPE_ENDING_BLOCK")
    IN  complete(p7, wrapper_m, "TWIG_AUTOESCAPE")

\* parse optional arguments
apply_arguments(q) ==
    IF at(q, "(")
    THEN expect(complete(parse_many(start(bump(q)), Loop("apply_arguments")),
                         next_marker(bump(q)), "TWIG_ARGUMENTS"),
                ")")
    ELSE q

\* if let Some(mut node) = parse_twig_name(parser) { arguments, piped filters }
\* else { parser.add_error(ParseErrorBuilder::new("twig filter")) }
apply_filters(q) ==
    IF q.ret # 0
    THEN parse_many(apply_arguments(keep_node(q)), Loop("apply_filters"))
    ELSE add_error(q, "twig filter")

parse_twig_apply(q, outer) ==
    LET p1 == bump(q)
        p2 == apply_filters(parse_twig_name(p1))
        p3 == expect(p2, "%}")
        p4 == complete(p3, outer, "TWIG_APPLY_STARTING_BLOCK")
        wrapper_m == next_marker(p4)
        p5 == precede(p4, outer)
        p6 == parse_body(p5, {"endapply"})
        p7 == parse_ending_block(p6, "endapply", "TWIG_APPLY_ENDING_BLOCK")
    IN  complete(p7, wrapper_m, "TWIG_APPLY")

\* if override_count < 1 { parser.add_error(...) }
at_least_one_override(q) ==
    IF q.count < 1 THEN add_error(q, "at least one block name as block name")
    ELSE q

\* if parser.at(T!["with"]) { ... }
use_overrides(q) ==
    IF at(q, "with")
    THEN at_least_one_override(
             parse_many([bump(q) EXCEPT !.count = 0], Loop("use_overrides")))
    ELSE q

parse_twig_use(q, outer) ==
    LET p1 == bump(q)
        p2 == string_or_error(p1, "twig string as template")
        p3 == use_overrides(p2)
        p4 == expect(p3, "%}")
    IN  complete(p4, outer, "TWIG_USE")

\* if parser.at(T!["with"]) { ... }
include_with(q) ==
    IF at(q, "with")
    THEN complete(or_error(parse_twig_expression(bump(start(q))),
                           "twig expression as with value"),
                  next_marker(q), "TWIG_INCLUDE_WITH")
    ELSE q

parse_twig_include(q, outer) ==
    LET p1 == or_error(parse_twig_expression(bump(q)),
                       "twig expression as template name")
        p2 == bump_if_at(p1, "ignore missing")
        p3 == include_with(p2)
        p4 == bump_if_at(p3, "only")
        p5 == expect(p4, "%}")
    IN  complete(p5, outer, "TWIG_INCLUDE")

parse_twig_extends(q, outer) ==
    LET p1 == or_error(parse_twig_expression(bump(q)), "twig expression")
        p2 == expect(p1, "%}")
    IN  complete(p2, outer, "TWIG_EXTENDS")

\* the value identifier behind a comma
for_second_variable(q) ==
    IF at(q, ",")
    THEN or_error(parse_twig_name(bump(q)), "variable name")
    ELSE q

\* check for else block
for_else(q) ==
    IF at_following(q, <<"{%", "else">>)
    THEN parse_body(complete(expect(bump(bump(start(q))), "%}"),
                             next_marker(q), "TWIG_FOR_ELSE_BLOCK"),
                    {"endfor"})
    ELSE q

parse_twig_for(q, outer) ==
    LET p1 == or_error(parse_twig_name(bump(q)), "variable name")
        p2 == for_second_variable(p1)
        p3 == expect(p2, "in")
        p4 == or_error(parse_twig_expression(p3), "twig expression")
        p5 == expect(p4, "%}")
        p6 == complete(p5, outer, "TWIG_FOR_BLOCK")
        wrapper_m == next_marker(p6)
        p7 == precede(p6, outer)
        p8 == parse_body(p7, {"endfor", "else"})
        p9 == for_else(p8)
        p10 == parse_ending_block(p9, "endfor", "TWIG_ENDFOR_BLOCK")
    IN  complete(p10, wrapper_m, "TWIG_FOR")

\* parse any amount of words seperated by comma
set_declarations(q) ==
    LET p1 == parse_many([q EXCEPT !.count = 0], Loop("set_names"))
    IN  IF p1.count = 0 THEN add_error(p1, "twig variable name") ELSE p1

\* as set_same_count, but the diagnostic reports the two counts swapped
set_same_count_swaps(q) ==
    IF q.count # q.assigned
    THEN add_error_with(q, "a total of twig expressions", <<q.assigned, q.count>>)
    ELSE q

\* if declaration_count != assignment_count { parser.add_error(...) }
set_same_count(q) ==
    IF q.count # q.assigned
    THEN add_error_with(q, "a total of twig expressions", <<q.count, q.assigned>>)
    ELSE q

\* check for equal assignment
set_assignments(q) ==
    IF at(q, "=")
    THEN set_same_count(parse_many([bump(q) EXCEPT !.assigned = 0],
                                   Loop("set_expressions")))
    ELSE IF q.count > 1
         THEN add_error_with(q, "= followed by twig expressions", <<q.count>>)
    ELSE q

\* as parse_twig_set, but the body and the endset are parsed after `=` too
parse_twig_set_always_captures(q, outer) ==
    LET p1 == bump(q)
        assignment_m == next_marker(p1)
        p2 == set_declarations(start(p1))
        p3 == set_assignments(p2)
        p4 == complete(p3, assignment_m, "TWIG_ASSIGNMENT")
        p5 == expect(p4, "%}")
        p6 == complete(p5, outer, "TWIG_SET_BLOCK")
        wrapper_m == next_marker(p6)
        p7 == precede(p6, outer)
    IN  complete(parse_ending_block(parse_body(p7, {"endset"}),
                                    "endset", "TWIG_ENDSET_BLOCK"),
                 wrapper_m, "TWIG_SET")

parse_twig_set(q, outer) ==
    LET p1 == bump(q)
        assignment_m == next_marker(p1)
        p2 == set_declarations(start(p1))
        is_assigned_by_equal == at(p2, "=")
        p3 == set_assignments(p2)
        p4 == complete(p3, assignment_m, "TWIG_ASSIGNMENT")
        p5 == expect(p4, "%}")
        p6 == complete(p5, outer, "TWIG_SET_BLOCK")
        wrapper_m == next_marker(p6)
        p7 == precede(p6, outer)
    IN  IF ~is_assigned_by_equal
            THEN complete(parse_ending_block(parse_body(p7, {"endset"}),
                                             "endset", "TWIG_ENDSET_BLOCK"),
                          wrapper_m, "TWIG_SET")
            ELSE complete(p7, wrapper_m, "TWIG_SET")

\* parse_twig_block: "parse all the children except endblock"
parse_twig_block_body(q) == parse_body(q, {"endblock"})

\* check for optional name behind endblock
endblock_name(q, block_name) ==
    IF at(q, "word")
    THEN IF block_name # NoName /\ tokens[q.pos].text # block_name
         THEN add_error_at(bump(q), "nothing or same twig block name as opening",
                           <<block_name>>, q.pos)
         ELSE bump(q)
    ELSE q

\* as parse_twig_block_ending, but without an ending block when the input
\* has ended
parse_twig_block_ending_gives_up(q, block_name) ==
    LET end_block_m == next_marker(q)
        p1 == expect(expect(start(q), "{%"), "endblock")
        p2 == endblock_name(p1, block_name)
        p3 == expect(p2, "%}")
    IN  IF at_end(q) THEN add_error(add_error(add_error(q, "{%"), "endblock"), "%}")
        ELSE complete(p3, end_block_m, "TWIG_ENDING_BLOCK")

\* as parse_twig_block_ending, but the name behind endblock is not compared
parse_twig_block_ending_ignores_name(q, block_name) ==
    LET end_block_m == next_marker(q)
        p1 == expect(expect(start(q), "{%"), "endblock")
        p2 == bump_if_at(p1, "word")
        p3 == expect(p2, "%}")
    IN  complete(p3, end_block_m, "TWIG_ENDING_BLOCK")

\* parse_twig_block: the ending block, with the optional name behind endblock
parse_twig_block_ending(q, block_name) ==
    LET end_block_m == next_marker(q)
        p1 == expect(expect(start(q), "{%"), "endblock")
        p2 == endblock_name(p1, block_name)
        p3 == expect(p2, "%}")
    IN  complete(p3, end_block_m, "TWIG_ENDING_BLOCK")

\* look for optional shortcut
block_shortcut(q) ==
    IF ~at(q, "%}")
    THEN or_error(parse_twig_expression(q), "twig expression or '%}'")
    ELSE q

\* if !found_shortcut { body and ending block }
block_rest(q, found_shortcut, block_name) ==
    IF ~found_shortcut
    THEN parse_twig_block_ending(parse_twig_block_body(q), block_name)
    ELSE q

\* as parse_twig_block, but whatever stands between the name and `%}` makes
\* the block a shortcut
parse_twig_block_always_shortcut(q, outer) ==
    LET p1 == bump(q)
        block_name == IF at(p1, "word") THEN tokens[p1.pos].text ELSE NoName
        p2 == expect(p1, "word")
        p3 == block_shortcut(p2)
        found_shortcut == ~at(p2, "%}")
        p4 == expect(p3, "%}")
        p5 == complete(p4, outer, "TWIG_STARTING_BLOCK")
        wrapper_m == next_marker(p5)
        p6 == precede(p5, outer)
        p7 == block_rest(p6, found_shortcut, block_name)
    IN  complete(p7, wrapper_m, "TWIG_BLOCK")

parse_twig_block(q, outer) ==
    LET p1 == bump(q)
        block_name == IF at(p1, "word") THEN tokens[p1.pos].text ELSE NoName
        p2 == expect(p1, "word")
        p3 == block_shortcut(p2)
        found_shortcut == ~at(p2, "%}") /\ p3.ret # 0
        p4 == expect(p3, "%}")
        p5 == complete(p4, outer, "TWIG_STARTING_BLOCK")
        wrapper_m == next_marker(p5)
        p6 == precede(p5, outer)
        p7 == block_rest(p6, found_shortcut, block_name)
    IN  complete(p7, wrapper_m, "TWIG_BLOCK")

IfEnders == {"endif", "elseif", "else"}

\* the most loop rounds a parse may take: a round either consumes a token or
\* is the last round of its loop
IterBound == 2 * Len(tokens) + 1

\* as if_else, but the branch header is completed as an elseif header
if_else_completes_elseif(q) ==
    complete(expect(bump(bump(start(q))), "%}"), next_marker(q),
             "TWIG_ELSE_IF_BLOCK")

\* one round of the `loop` of parse_twig_if starts: parse body (all the children)
if_body(q) == parse_body([q EXCEPT !.iters = @ + 1], IfEnders)

\* the elseif branch header
if_elseif(q) ==
    complete(expect(or_error(parse_twig_expression(bump(bump(start(q)))),
                             "twig expression"),
                    "%}"),
             next_marker(q), "TWIG_ELSE_IF_BLOCK")

\* the else branch header
if_else(q) ==
    complete(expect(bump(bump(start(q))), "%}"), next_marker(q),
             "TWIG_ELSE_BLOCK")

\* as parse_twig_if_branches, but without the final `break`: the loop goes
\* on when no branch header follows the body (cut off beyond IterBound)
RECURSIVE parse_twig_if_branches_never_breaks(_)
parse_twig_if_branches_never_breaks(q) ==
    LET p1 == if_body(q)
    IN  IF at_following(p1, <<"{%", "endif">>) THEN p1
        ELSE IF at_following(p1, <<"{%", "elseif">>)
        THEN parse_twig_if_branches_never_breaks(if_elseif(p1))
        ELSE IF at_following(p1, <<"{%", "else">>)
        THEN parse_twig_if_branches_never_breaks(if_else(p1))
        ELSE IF p1.iters > IterBound THEN p1
        ELSE parse_twig_if_branches_never_breaks(p1)

\* the `loop` of parse_twig_if: a body, then a branch header or the end
RECURSIVE parse_twig_if_branches(_)
parse_twig_if_branches(q) ==
    LET p1 == if_body(q)
    IN  IF at_following(p1, <<"{%", "endif">>) THEN p1
        ELSE IF at_following(p1, <<"{%", "elseif">>)
        THEN parse_twig_if_branches(if_elseif(p1))
        ELSE IF at_following(p1, <<"{%", "else">>)
        THEN parse_twig_if_branches(if_else(p1))
        ELSE p1

parse_twig_if(q, outer) ==
    LET p1 == or_error(parse_twig_expression(bump(q)), "twig expression")
        p2 == expect(p1, "%}")
        p3 == complete(p2, outer, "TWIG_IF_BLOCK")
        wrapper_m == next_marker(p3)
        p4 == precede(p3, outer)
        p5 == parse_twig_if_branches(p4)
        p6 == parse_ending_block(p5, "endif", "TWIG_ENDIF_BLOCK")
    IN  complete(p6, wrapper_m, "TWIG_IF")

UnknownKeyword == "'block', 'if', 'set' or 'for' (nothing else supported yet)"

\* as unknown_statement, but the unrecognized keyword is dropped from the
\* token stream
unknown_statement_skips_keyword(q, outer) ==
    LET r == none(complete(add_error(q, UnknownKeyword), outer, "ERROR"))
    IN  IF at_end(q) THEN r ELSE [r EXCEPT !.pos = @ + 1]

\* as unknown_statement, but the marker is left open
unknown_statement_leaves_marker(q, outer) ==
    none(add_error(q, UnknownKeyword))

\* as unknown_statement, but the unrecognized keyword is skipped by recover()
unknown_statement_recovers(q, outer) ==
    none(complete(recover(add_error(q, UnknownKeyword)), outer, "ERROR"))

\* the final else of parse_twig_block_statement: no statement keyword follows
unknown_statement(q, outer) ==
    none(complete(add_error(q, UnknownKeyword), outer, "ERROR"))

\* the dispatch on the keyword behind the `{%`
twig_statement(q, m) ==
    IF at(q, "block") THEN parse_twig_block(q, m)
    ELSE IF at(q, "if") THEN parse_twig_if(q, m)
    ELSE IF at(q, "set") THEN parse_twig_set(q, m)
    ELSE IF at(q, "for") THEN parse_twig_for(q, m)
    ELSE IF at(q, "extends") THEN parse_twig_extends(q, m)
    ELSE IF at(q, "include") THEN parse_twig_include(q, m)
    ELSE IF at(q, "use") THEN parse_twig_use(q, m)
    ELSE IF at(q, "apply") THEN parse_twig_apply(q, m)
    ELSE IF at(q, "autoescape") THEN parse_twig_autoescape(q, m)
    ELSE IF at(q, "deprecated") THEN parse_twig_deprecated(q, m)
    ELSE unknown_statement(q, m)

parse_twig_block_statement(q) == twig_statement(bump(start(q)), next_marker(q))

----------------------------------------------------------------------------
(* The outer grammar (spec.md 4.D "Top level"), reduced to what can occur  *)
(* between Twig tags: runs of text.                                        *)

parse_html_text(q) ==
    complete(parse_many(start(q), Loop("html_text")), next_marker(q), "HTML_TEXT")

\* the words of a comment, up to its `#}`
comment_words(q) == parse_many(q, Loop("comment"))

\* `{#` ... `#}`: a comment that starts with ludtwig-ignore is a directive
parse_twig_comment(q) ==
    complete(expect(comment_words(bump(start(q))), "#}"), next_marker(q),
             IF at_following(q, <<"{#", "ludtwig-ignore">>)
             THEN "LUDTWIG_DIRECTIVE_IGNORE" ELSE "TWIG_COMMENT")

\* the child_parser handed to the tag productions
parse_any_element(q) ==
    IF at(q, "{%") THEN parse_twig_block_statement(q)
    ELSE IF at(q, "{#") THEN parse_twig_comment(q)
    ELSE IF at_end(q) \/ at_set(q, TEXT_STOP) THEN none(q)
    ELSE parse_html_text(q)

----------------------------------------------------------------------------
(* The sink (spec.md 4.E): replays the events with a stack of open nodes.  *)
(* A Start event with a forward parent opens its parents first, outermost  *)
(* first.  Trivia is attached when the next token is added, so it lands in *)
(* the node that directly holds that token; trivia behind the last token   *)
(* is attached to the root before it is closed.  The tree is the sequence  *)
(* of its nodes and tokens in document order, each with its parent.        *)

RECURSIVE forward_parents(_, _)
forward_parents(events, i) ==
    IF events[i].fp = 0 THEN <<i>>
    ELSE <<i>> \o forward_parents(events, i + events[i].fp)

Reverse(s) == [i \in 1..Len(s) |-> s[Len(s) + 1 - i]]

Item(type, kind, tok, parent) ==
    [type |-> type, kind |-> kind, tok |-> tok, parent |-> parent]

Top(stack) == IF stack = <<>> THEN 0 ELSE stack[Len(stack)]

RECURSIVE open_nodes(_, _, _, _)
open_nodes(events, chain, out, stack) ==
    IF chain = <<>> THEN [out |-> out, stack |-> stack]
    ELSE open_nodes(events, Tail(chain),
                    Append(out, Item("Node", events[Head(chain)].kind, 0,
                                     Top(stack))),
                    Append(stack, Len(out) + 1))

eat_trivia(out, stack, tr, i) ==
    IF i \in tr THEN Append(out, Item("Trivia", "TRIVIA", i, Top(stack)))
    ELSE out

\* one event replayed: `out` is the tree so far, `stack` the open nodes,
\* `used` the Start events already opened as somebody's forward parent
sink_event(events, tr, st, i) ==
    LET e == events[i] IN
    IF e.type = "Start"
    THEN IF i \in st.used \/ e.kind = "TOMBSTONE" THEN st
         ELSE LET chain == forward_parents(events, i)
                  r == open_nodes(events, Reverse(chain), st.out, st.stack)
              IN  [out |-> r.out, stack |-> r.stack,
                   used |-> st.used \cup {chain[k] : k \in 1..Len(chain)}]
    ELSE IF e.type = "Token"
    THEN [st EXCEPT !.out =
             Append(eat_trivia(st.out, st.stack, tr, e.tok),
                    Item("Token", tokens[e.tok].kind, e.tok, Top(st.stack)))]
    ELSE [st EXCEPT
             !.out = IF i = Len(events)
                     THEN eat_trivia(st.out, st.stack, tr, Len(tokens) + 1)
                     ELSE st.out,
             !.stack = IF st.stack = <<>> THEN <<>>
                       ELSE SubSeq(st.stack, 1, Len(st.stack) - 1)]

\* the events lo..hi replayed in order (split in halves)
RECURSIVE sink(_, _, _, _, _)
sink(events, tr, st, lo, hi) ==
    IF lo > hi THEN st
    ELSE IF lo = hi THEN sink_event(events, tr, st, lo)
    ELSE LET mid == (lo + hi) \div 2
             half == sink(events, tr, st, lo, mid)
         IN  InOrder(<<half, sink(events, tr, half, mid + 1, hi)>>)

Sink(events, tr) ==
    sink(events, tr, [out |-> <<>>, stack |-> <<>>, used |-> {}],
         1, Len(events)).out

----------------------------------------------------------------------------
(* Inputs.                                                                 *)

SeqsUpTo(S, n) == UNION {[1..k -> S] : k \in 0..n}

RECURSIVE Flatten(_)
Flatten(ss) == IF ss = <<>> THEN <<>> ELSE Head(ss) \o Flatten(Tail(ss))

Tag(body) == <<T("{%")>> \o body \o <<T("%}")>>

BlkA == Tag(<<T("block"), W("a")>>)
BlkB == Tag(<<T("block"), W("b")>>)
BlkShortcut == Tag(<<T("block"), W("a"), W("b"), T("|"), W("a")>>)
End == Tag(<<T("endblock")>>)
EndA == Tag(<<T("endblock"), W("a")>>)
EndB == Tag(<<T("endblock"), W("b")>>)
Txt == <<W("a")>>
If == Tag(<<T("if"), W("a")>>)
ElseIf == Tag(<<T("elseif"), W("b")>>)
Else == Tag(<<T("else")>>)
EndIf == Tag(<<T("endif")>>)
For == Tag(<<T("for"), W("a"), T("in"), W("b")>>)
EndFor == Tag(<<T("endfor")>>)
SetCapture == Tag(<<T("set"), W("a")>>)
SetEqual == Tag(<<T("set"), W("a"), T("="), T("number")>>)
EndSet == Tag(<<T("endset")>>)
Apply == Tag(<<T("apply"), W("a"), T("("), T("number"), T(")"), T("|"), W("b")>>)
EndApply == Tag(<<T("endapply")>>)
Autoescape == Tag(<<T("autoescape"), T("false")>>)
EndAutoescape == Tag(<<T("endautoescape")>>)
Extends == Tag(<<T("extends"), T("'"), W("a"), T("'")>>)
Include == Tag(<<T("include"), W("a"), T("ignore missing"), T("with"), W("b"), T("only")>>)
Use == Tag(<<T("use"), T("'"), W("a"), T("'"), T("with"), W("a"), T("as"), W("b")>>)
Deprecated == Tag(<<T("deprecated"), T("'"), W("a"), T("'")>>)

Families ==
    { {BlkA, BlkB, BlkShortcut, End, EndA, EndB, Txt},
      {If, ElseIf, Else, EndIf, BlkA, End, Txt},
      {For, Else, EndFor, SetCapture, SetEqual, EndSet, Txt},
      {Apply, EndApply, Autoescape, EndAutoescape, BlkA, End, Txt},
      {Extends, Include, Use, Deprecated, <<T("{%")>>, <<T("%}")>>, Txt} }

Openers == {BlkA, BlkB, If}
Closers == {End, EndB, EndIf}

RawInputs == {<<T("{%")>> \o s : s \in SeqsUpTo(AllTokens, MaxRaw)}

FragmentInputs ==
    UNION {{Flatten(fs) : fs \in SeqsUpTo(F, MaxFrags)} : F \in Families}

NestedInputs ==
    UNION {{Flatten(os) \o Flatten(cs) :
                os \in [1..n -> Openers], cs \in [1..n -> Closers]} :
           n \in 1..MaxNest}

\* the malformed inputs of the tests of tags.rs
ForMissingVariable == Tag(<<T("for"), T("in"), W("b")>>) \o Txt \o EndFor
ApplyWrongType == Tag(<<T("apply"), T("number")>>) \o Txt \o EndApply
AutoescapeWrongVar == Tag(<<T("autoescape"), W("a")>>) \o Txt \o EndAutoescape
SetMissingEqual == Tag(<<T("set"), W("a"), T(","), W("b"), T(","), W("a")>>)
UseNameAsMissing == Tag(<<T("use"), T("'"), W("a"), T("'"), T("with"), W("a")>>)
NamedEndblockMismatch == BlkA \o BlkB \o Txt \o EndA \o EndA

Prefixes(s) == {SubSeq(s, 1, k) : k \in 1..Len(s)}

\* a filter followed by something that is neither `|` nor `%}`, and a set
\* statement whose first token is no name
ApplyFilterThenNumber == Tag(<<T("apply"), W("a"), T("number")>>)
SetOfNumber == Tag(<<T("set"), T("number")>>)

\* the test inputs, and each of them cut off after any token
TestInputs ==
    UNION {Prefixes(s) :
              s \in {ForMissingVariable, ApplyWrongType, AutoescapeWrongVar,
                      SetMissingEqual, UseNameAsMissing, NamedEndblockMismatch,
                      ApplyFilterThenNumber, SetOfNumber}}

\* the most elseif branches of an if statement of IfInputs
MaxElseIf == 2

\* an if statement whose branches are the headers hs, each followed by body
IfWith(hs, body) ==
    If \o body \o Flatten([i \in DOMAIN hs |-> hs[i] \o body]) \o EndIf

\* the if statements of the grammar if (elseif)* (else)? endif
WellFormedIf(k, e) ==
    {IfWith([i \in 1..k |-> ElseIf] \o (IF e THEN <<Else>> ELSE <<>>), body) :
        body \in {<<>>, Txt}}

\* if statements with any two or three branch headers, in any order
IfInputs ==
    UNION {WellFormedIf(k, e) : k \in 0..MaxElseIf, e \in BOOLEAN}
        \cup {IfWith(hs, <<>>) : hs \in [1..2 -> {ElseIf, Else}]
                                      \cup [1..3 -> {ElseIf, Else}]}

\* the most names, and the most expressions, of a set statement of SetInputs
MaxSetCount == 2

\* n times the tokens item, separated by commas
CommaList(item, n) ==
    Flatten([i \in 1..n |-> IF i = 1 THEN item ELSE <<T(",")>> \o item])

\* {% set a, a = number, number %} with d names and a expressions
SetOf(d, a) ==
    Tag(<<T("set")>> \o CommaList(<<W("a")>>, d) \o <<T("=")>>
            \o CommaList(<<T("number")>>, a))

\* {% set a, a %} with d names, and its body
SetCaptureOf(d) == Tag(<<T("set")>> \o CommaList(<<W("a")>>, d)) \o Txt

\* set statements of both forms, alone, two in a row and one within another
SetInputs ==
    LET Counts == 0..MaxSetCount
        Equal == {SetOf(d, a) : d \in Counts, a \in Counts}
        Capture == {SetCaptureOf(d) : d \in Counts}
    IN  Equal
            \cup {SetOf(d, a) \o SetOf(a, d) : d \in Counts, a \in Counts}
            \cup {c \o e : c \in Capture, e \in {<<>>, EndSet}}
            \cup {c \o SetOf(d, d + 1) \o EndSet :
                      c \in Capture, d \in 0..(MaxSetCount - 1)}

Inputs ==
    RawInputs \cup FragmentInputs \cup NestedInputs \cup TestInputs
        \cup IfInputs \cup SetInputs

\* where trivia may stand: nowhere, before every token and at the end,
\* before every second token, only at the end
TriviaPatterns(n) ==
    { {}, 1..(n + 1), {i \in 1..(n + 1) : i % 2 = 1}, {n + 1} }

----------------------------------------------------------------------------
(* The root production and the tree building, as a state machine: one step *)
(* per element parsed at the top level.                                    *)

\* the parts of the state the parser does not use
NoLint == text = <<>> /\ config = <<>> /\ results = <<>> /\ fixed = <<>>
NoPipeline ==
    /\ walkers = <<>>
    /\ tasks = <<>>
    /\ disk = {}
    /\ channel = <<>>
    /\ received = <<>>
    /\ output_handler = "none"
NoFunction == input = <<>> /\ res = <<>> /\ node = <<>> /\ writer = <<>>

Init ==
    /\ tokens \in Inputs
    /\ trivia = {}
    /\ p = NewParser
    /\ pc = "new"
    /\ tree = <<>>
    /\ NoLint
    /\ NoPipeline
    /\ NoFunction

\* root(): let m = parser.start()
RootStart ==
    /\ pc = "new"
    /\ p' = start(p)
    /\ pc' = "root"
    /\ UNCHANGED <<tokens, trivia, tree, lintVars, funVars, pipeVars>>

\* one round of the loop of root(): parse_many(parser, |_| false, child)
root_round(q) == parse_many_round(q, Loop("root"))

\* the dispatch of parse_any_element, read off the tokens
AtStatement(keyword) == pc = "root" /\ at_following(p, <<"{%", keyword>>)

\* `{%` followed by no statement keyword (or by nothing)
AtUnknownStatement ==
    /\ pc = "root"
    /\ at(p, "{%")
    /\ \A k \in StatementKeywords : ~at_following(p, <<"{%", k>>)

AtText == pc = "root" /\ ~at_end(p) /\ ~at_set(p, TEXT_STOP)

\* nothing can parse the current token
AtUnparseable == pc = "root" /\ ~at_end(p) /\ at(p, "%}")

AtEnd == pc = "root" /\ at_end(p)

\* a Twig tag statement at the top level, `{% keyword ...`
Statement(keyword) ==
    /\ AtStatement(keyword)
    /\ p' = root_round(p)
    /\ UNCHANGED <<tokens, trivia, pc, tree, lintVars, funVars, pipeVars>>

StatementBlock == Statement("block")
StatementIf == Statement("if")
StatementSet == Statement("set")
StatementFor == Statement("for")
StatementExtends == Statement("extends")
StatementInclude == Statement("include")
StatementUse == Statement("use")
StatementApply == Statement("apply")
StatementAutoescape == Statement("autoescape")
StatementDeprecated == Statement("deprecated")

StatementUnknown ==
    /\ AtUnknownStatement
    /\ p' = root_round(p)
    /\ UNCHANGED <<tokens, trivia, pc, tree, lintVars, funVars, pipeVars>>

HtmlText ==
    /\ AtText
    /\ p' = root_round(p)
    /\ UNCHANGED <<tokens, trivia, pc, tree, lintVars, funVars, pipeVars>>

\* the unparseable token becomes an ERROR node by itself
RootRecover ==
    /\ AtUnparseable
    /\ p' = root_round(p)
    /\ UNCHANGED <<tokens, trivia, pc, tree, lintVars, funVars, pipeVars>>

\* root(): parser.complete(m, SyntaxKind::ROOT)
Finish ==
    /\ AtEnd
    /\ p' = complete(p, 1, "ROOT")
    /\ pc' = "parsed"
    /\ UNCHANGED <<tokens, trivia, tree, lintVars, funVars, pipeVars>>

BuildTree ==
    /\ pc = "parsed"
    /\ \E tr \in TriviaPatterns(Len(tokens)) :
          /\ trivia' = tr
          /\ tree' = Sink(p.events, tr)
    /\ pc' = "done"
    /\ UNCHANGED <<tokens, p, lintVars, funVars, pipeVars>>

Next ==
    \/ RootStart
    \/ StatementBlock
    \/ StatementIf
    \/ StatementSet
    \/ StatementFor
    \/ StatementExtends
    \/ StatementInclude
    \/ StatementUse
    \/ StatementApply
    \/ StatementAutoescape
    \/ StatementDeprecated
    \/ StatementUnknown
    \/ HtmlText
    \/ RootRecover
    \/ Finish
    \/ BuildTree

Spec == Init /\ [][Next]_vars

\* every enabled step is eventually taken: the parser is a sequential program
FairSpec == Spec /\ WF_vars(Next)

----------------------------------------------------------------------------
(* Reading the tree.                                                       *)

Range(s) == {s[i] : i \in DOMAIN s}

IsNode(i) == tree[i].type = "Node"
IsToken(i) == tree[i].type = "Token"
IsTrivia(i) == tree[i].type = "Trivia"

NodesOf(kinds) == {i \in DOMAIN tree : IsNode(i) /\ tree[i].kind \in kinds}

\* the children of node i, in document order
Children(i) ==
    SelectSeq([j \in DOMAIN tree |-> j], LAMBDA j : tree[j].parent = i)

ChildNodes(i) == SelectSeq(Children(i), IsNode)
ChildTokens(i) == SelectSeq(Children(i), IsToken)

KindsOf(is) == [k \in DOMAIN is |-> tree[is[k]].kind]

\* the token children of node i that have kind k
TokensOfKind(i, k) ==
    {j \in DOMAIN tree : IsToken(j) /\ tree[j].parent = i /\ tree[j].kind = k}

\* the item of the tree that is token number t of the input
ItemOfToken(t) == CHOOSE j \in DOMAIN tree : IsToken(j) /\ tree[j].tok = t

\* the input positions of the token events, in the order of the events
EmittedTokens(events) ==
    LET ts == SelectSeq(events, LAMBDA e : e.type = "Token")
    IN  [i \in DOMAIN ts |-> ts[i].tok]

\* the input positions of the tokens of the tree, in document order
TreeTokens ==
    LET ts == SelectSeq(tree, LAMBDA x : x.type = "Token")
    IN  [i \in DOMAIN ts |-> ts[i].tok]

Identity(n) == [i \in 1..n |-> i]

Diagnostics(msgs) == {i \in DOMAIN p.errors : p.errors[i].msg \in msgs}

----------------------------------------------------------------------------
(* C1..C10: the parser.                                                    *)

\* C1 (lossless parse): the token events, in the order they were emitted, are
\* the input tokens 1, 2, ... up to the parser's position - none skipped,
\* repeated or reordered - and the tokens of the finished tree, in document
\* order, are all input tokens in input order.
C1_Lossless ==
    /\ EmittedTokens(p.events) = Identity(p.pos - 1)
    /\ pc = "done" => TreeTokens = Identity(Len(tokens))

\* an error-recovery path was taken and the tree holds every token
C1_Witness ==
    /\ pc = "done"
    /\ NodesOf({"ERROR"}) # {}
    /\ p.errors # <<>>
    /\ Len(tokens) >= 3
    /\ TreeTokens = Identity(Len(tokens))

\* the tree has one root, ROOT, that holds every token and all trivia
RootCoversInput ==
    /\ tree # <<>>
    /\ tree[1].kind = "ROOT"
    /\ tree[1].parent = 0
    /\ \A i \in 2..Len(tree) : tree[i].parent \in 1..(i - 1)
    /\ TreeTokens = Identity(Len(tokens))
    /\ {tree[i].tok : i \in {j \in DOMAIN tree : IsTrivia(j)}} = trivia

\* what is left to do: the tokens not yet consumed, then the closing steps
Measure ==
    3 * (Len(tokens) + 1 - p.pos)
      + (CASE pc = "new" -> 3 [] pc = "root" -> 2 [] pc = "parsed" -> 1
           [] pc = "done" -> 0)

\* some step of the root production is possible
CanStep ==
    \/ pc \in {"new", "parsed"}
    \/ \E k \in StatementKeywords : AtStatement(k)
    \/ AtUnknownStatement
    \/ AtText
    \/ AtUnparseable
    \/ AtEnd

\* C2 (parser totality): every parse ends in a tree whose ROOT covers the
\* whole input: until the tree is built a step is always possible, every
\* step brings the end nearer, the loops of the productions take at most
\* IterBound rounds in all, and no production bumps past the end of input.
C2_Totality ==
    /\ [](/\ p.iters <= IterBound
          /\ "bump at end" \notin p.faults
          /\ pc # "done" => CanStep
          /\ pc = "done" => RootCoversInput)
    /\ [][Measure' < Measure]_vars

\* a malformed if, set or apply statement was parsed to the end
C2_Witness ==
    /\ pc = "done"
    /\ RootCoversInput
    /\ p.errors # <<>>
    /\ NodesOf({"TWIG_IF", "TWIG_SET", "TWIG_APPLY"}) # {}
    /\ p.iters >= 2

\* the markers that were handed out and not completed
OpenMarkers(events) == {i \in DOMAIN events : events[i] = Placeholder}

\* no prefix of the events finishes more nodes than it has started
NeverBelow(events) ==
    \A n \in DOMAIN events :
        Cardinality({i \in 1..n : events[i].type = "Finish"})
            <= Cardinality({i \in 1..n : events[i].type = "Start"})

CountOf(events, type) ==
    Cardinality({i \in DOMAIN events : events[i].type = type})

\* C3 (marker discipline): no marker is completed twice or preceded while
\* open; between two elements of the root only the root's marker is open
\* and every other started node is finished; after the root is completed no
\* marker is open and starts and finishes are balanced.
C3_MarkerDiscipline ==
    /\ p.faults \cap {"marker completed twice", "precede of an open marker"} = {}
    /\ NeverBelow(p.events)
    /\ pc = "root" =>
          /\ OpenMarkers(p.events) = {1}
          /\ CountOf(p.events, "Start") = CountOf(p.events, "Finish") + 1
    /\ pc \in {"parsed", "done"} =>
          /\ OpenMarkers(p.events) = {}
          /\ CountOf(p.events, "Start") = CountOf(p.events, "Finish")

\* parse_twig_block_statement has returned from its unrecognized-keyword path
C3_Witness ==
    /\ pc = "root"
    /\ p.errors # <<>>
    /\ p.errors[Len(p.errors)].msg = UnknownKeyword
    /\ p.ret = 0
    /\ Len(p.events) = 4
    /\ OpenMarkers(p.events) = {1}

\* the nodes of closing tags and of branch tags
ClosingKinds ==
    {"TWIG_ENDING_BLOCK", "TWIG_ENDIF_BLOCK", "TWIG_ELSE_IF_BLOCK",
     "TWIG_ELSE_BLOCK", "TWIG_FOR_ELSE_BLOCK", "TWIG_ENDFOR_BLOCK",
     "TWIG_ENDSET_BLOCK", "TWIG_APPLY_ENDING_BLOCK",
     "TWIG_AUTOESCAPE_ENDING_BLOCK"}

\* C4 (trivia attachment): in the finished tree every trivia token that
\* precedes a token stands directly before that token as a child of the same
\* node, that node is never a BODY (so trivia before a closing or branch tag
\* is in the closing or branch node), and trivia behind the last token is the
\* last child of ROOT.
C4_TriviaAttachment ==
    pc = "done" =>
        \A i \in DOMAIN tree :
            IsTrivia(i) =>
                IF tree[i].tok <= Len(tokens)
                THEN /\ i < Len(tree)
                     /\ IsToken(i + 1)
                     /\ tree[i + 1].tok = tree[i].tok
                     /\ tree[i + 1].parent = tree[i].parent
                     /\ tree[tree[i].parent].kind # "BODY"
                ELSE /\ i = Len(tree)
                     /\ tree[i].parent = 1
                     /\ tree[1].kind = "ROOT"

\* trivia stands between a BODY that is not empty and the closing tag behind
\* it, and behind the last token
C4_Witness ==
    /\ pc = "done"
    /\ Len(tokens) + 1 \in trivia
    /\ \E i \in DOMAIN tree :
          /\ IsTrivia(i)
          /\ tree[tree[i].parent].kind \in ClosingKinds
          /\ tree[i + 1].kind = "{%"
          /\ \E b \in NodesOf({"BODY"}) :
                /\ tree[b].parent = tree[tree[i].parent].parent
                /\ Children(b) # <<>>
                /\ b < i

\* the ERROR nodes that hold a `{%`
UnknownStatements == {e \in NodesOf({"ERROR"}) : TokensOfKind(e, "{%") # {}}

\* the diagnostic of an unrecognized keyword behind the `{%` at input position t
UnknownKeywordDiagnostic(t) ==
    [msg |-> UnknownKeyword, args |-> <<>>,
     at |-> IF t < Len(tokens) THEN t + 1 ELSE t,
     found |-> IF t < Len(tokens) THEN tokens[t + 1].kind ELSE "EOF"]

\* C5 (unrecognized keyword): a step of the root at a `{%` that no statement
\* keyword follows appends exactly the events of an ERROR node holding the
\* `{%` and exactly one diagnostic, moves the position by one token and
\* returns None; and in the finished tree every ERROR node holding a `{%`,
\* at any depth, has that token as its only child besides trivia, is followed
\* by no statement keyword, and has exactly one diagnostic, found at the
\* token behind the `{%`; there are no other diagnostics of this kind.
C5_UnknownKeyword ==
    /\ [](pc = "done" =>
            /\ \A e \in UnknownStatements :
                  LET ts == SelectSeq(Children(e), LAMBDA j : ~IsTrivia(j))
                      t == tree[ts[1]].tok
                  IN  /\ Len(ts) = 1
                      /\ IsToken(ts[1])
                      /\ tree[ts[1]].kind = "{%"
                      /\ t < Len(tokens) =>
                            tokens[t + 1].kind \notin StatementKeywords
                      /\ Cardinality({i \in DOMAIN p.errors :
                            p.errors[i] = UnknownKeywordDiagnostic(t)}) = 1
            /\ Cardinality(Diagnostics({UnknownKeyword}))
                  = Cardinality(UnknownStatements))
    /\ [][AtUnknownStatement =>
            /\ p'.pos = p.pos + 1
            /\ p'.ret = 0
            /\ p'.events = p.events \o
                  <<[Placeholder EXCEPT !.kind = "ERROR"], TokenEvent(p.pos),
                    FinishNode>>
            /\ p'.errors = Append(p.errors, UnknownKeywordDiagnostic(p.pos))]_vars

\* a `{%` that no keyword follows, inside the body of a statement: the ERROR
\* node holds the `{%` alone and the diagnostic was recorded at the end of input
C5_Witness ==
    /\ pc = "done"
    /\ \E e \in UnknownStatements :
          /\ tree[tree[e].parent].kind = "BODY"
          /\ tree[e + 1].tok = Len(tokens)
          /\ \E i \in DOMAIN p.errors :
                p.errors[i] = UnknownKeywordDiagnostic(Len(tokens))

\* the diagnostics recorded by a failed expect(kind): their message is the kind
ExpectDiagnostics == Diagnostics(Kinds)

\* the failed expects that found a token which recovery may skip
SkippingDiagnostics ==
    {i \in ExpectDiagnostics : p.errors[i].found \notin RECOVERY_SET \cup {"EOF"}}

\* the node that directly holds input token t
NodeOfToken(t) == tree[ItemOfToken(t)].parent

\* the ERROR nodes made by recover(): one token, neither `{%` nor `%}`
RecoveredTokens ==
    {e \in NodesOf({"ERROR"}) :
        \E j \in DOMAIN tree :
            IsToken(j) /\ tree[j].parent = e /\ tree[j].kind \notin RECOVERY_SET}

Wrappers ==
    [TWIG_BLOCK |-> <<"TWIG_STARTING_BLOCK", "TWIG_ENDING_BLOCK", "endblock">>,
     TWIG_SET |-> <<"TWIG_SET_BLOCK", "TWIG_ENDSET_BLOCK", "endset">>,
     TWIG_FOR |-> <<"TWIG_FOR_BLOCK", "TWIG_ENDFOR_BLOCK", "endfor">>,
     TWIG_IF |-> <<"TWIG_IF_BLOCK", "TWIG_ENDIF_BLOCK", "endif">>,
     TWIG_APPLY |->
        <<"TWIG_APPLY_STARTING_BLOCK", "TWIG_APPLY_ENDING_BLOCK", "endapply">>,
     TWIG_AUTOESCAPE |->
        <<"TWIG_AUTOESCAPE_STARTING_BLOCK", "TWIG_AUTOESCAPE_ENDING_BLOCK",
          "endautoescape">>]

EndingKinds == {Wrappers[w][2] : w \in DOMAIN Wrappers}

\* the nodes that one tag makes: each of them expects its `%}` once
TagKinds ==
    {Wrappers[w][1] : w \in DOMAIN Wrappers} \cup ClosingKinds
        \cup {"TWIG_EXTENDS", "TWIG_INCLUDE", "TWIG_USE", "TWIG_DEPRECATED"}

\* the statement has no body: a block in shortcut form, a set with `=`
HasNoBody(w) ==
    LET s == ChildNodes(w)[1]
    IN  \/ /\ tree[w].kind = "TWIG_BLOCK"
           /\ \E c \in Range(ChildNodes(s)) : tree[c].kind = "TWIG_EXPRESSION"
        \/ /\ tree[w].kind = "TWIG_SET"
           /\ \E a \in Range(ChildNodes(s)) : TokensOfKind(a, "=") # {}

\* nodes of the given kinds that hold no token of kind k
Lacking(kinds, k) == {n \in NodesOf(kinds) : TokensOfKind(n, k) = {}}

\* C7 (missing closing tag is recoverable): in the finished tree every block,
\* capturing set, for, if, apply and autoescape node holds no token itself and
\* has its starting block first, a BODY second and its ending block last,
\* whether or not the closing tag was found; and one diagnostic is recorded
\* for each token a tag lacks: as many `{%` diagnostics as ending blocks
\* without `{%`, as many diagnostics of an end keyword as ending blocks of
\* its kind without it, as many `%}` diagnostics as tags without `%}`.
C7_MissingClosingTag ==
    pc = "done" =>
        /\ \A w \in NodesOf(DOMAIN Wrappers) :
              LET kinds == KindsOf(ChildNodes(w))
              IN  /\ ChildTokens(w) = <<>>
                  /\ kinds # <<>>
                  /\ kinds[1] = Wrappers[tree[w].kind][1]
                  /\ IF HasNoBody(w) THEN Len(kinds) = 1
                     ELSE /\ Len(kinds) >= 3
                          /\ kinds[2] = "BODY"
                          /\ kinds[Len(kinds)] = Wrappers[tree[w].kind][2]
        /\ \A w \in DOMAIN Wrappers :
              Cardinality(Diagnostics({Wrappers[w][3]}))
                  = Cardinality(Lacking({Wrappers[w][2]}, Wrappers[w][3]))
        /\ Cardinality(Diagnostics({"{%"})) = Cardinality(Lacking(EndingKinds, "{%"))
        /\ Cardinality(Diagnostics({"%}"})) = Cardinality(Lacking(TagKinds, "%}"))

\* the input ends behind the body of a statement: its ending block is empty
\* and exactly the three diagnostics of the missing closing tag are recorded
C7_Witness ==
    /\ pc = "done"
    /\ \E w \in NodesOf(DOMAIN Wrappers) :
          LET cs == ChildNodes(w)
          IN  /\ Len(cs) = 3
              /\ tree[cs[3]].kind \in EndingKinds
              /\ Children(cs[2]) # <<>>
              /\ Children(cs[3]) = <<>>
    /\ Len(p.errors) = 3
    /\ \A i \in DOMAIN p.errors : p.errors[i].found = "EOF"
    /\ Cardinality(Diagnostics({"{%"})) = 1
    /\ Cardinality(Diagnostics({"%}"})) = 1

NameMismatch == "nothing or same twig block name as opening"

\* the blocks that are not in shortcut form
Blocks == {b \in NodesOf({"TWIG_BLOCK"}) : Len(ChildNodes(b)) = 3}

\* the word that node n itself holds (a block name), as a set
NameOf(n) == {tokens[tree[j].tok].text : j \in TokensOfKind(n, "word")}

\* the block's opening and its ending both carry a name, and they differ
Mismatched(b) ==
    /\ NameOf(ChildNodes(b)[1]) # {}
    /\ NameOf(ChildNodes(b)[3]) # {}
    /\ NameOf(ChildNodes(b)[1]) # NameOf(ChildNodes(b)[3])

\* the diagnostic of block b: at the name of its ending block, naming the
\* name of its own opening
MismatchDiagnostic(b) ==
    [msg |-> NameMismatch,
     args |-> <<CHOOSE n \in NameOf(ChildNodes(b)[1]) : TRUE>>,
     at |-> tree[CHOOSE j \in TokensOfKind(ChildNodes(b)[3], "word") : TRUE].tok,
     found |-> "word"]

\* C8 (block name matching): in the finished tree every block that is not a
\* shortcut has the children TWIG_STARTING_BLOCK, BODY, TWIG_ENDING_BLOCK, so
\* the ending block is inside the block it closes; the name-mismatch
\* diagnostic of a block is recorded (once, at the name behind endblock, with
\* the name of that block's own opening) exactly when both its opening and
\* its ending carry a name and the names differ; no other name-mismatch
\* diagnostic is recorded.
C8_BlockNameMatching ==
    pc = "done" =>
        /\ \A b \in Blocks :
              /\ KindsOf(ChildNodes(b))
                    = <<"TWIG_STARTING_BLOCK", "BODY", "TWIG_ENDING_BLOCK">>
              /\ Cardinality(NameOf(ChildNodes(b)[1])) <= 1
              /\ Cardinality(TokensOfKind(ChildNodes(b)[3], "word")) <= 1
              /\ IF Mismatched(b)
                 THEN Cardinality({i \in DOMAIN p.errors :
                         p.errors[i] = MismatchDiagnostic(b)}) = 1
                 ELSE \A i \in Diagnostics({NameMismatch}) :
                         \A j \in TokensOfKind(ChildNodes(b)[3], "word") :
                             p.errors[i].at # tree[j].tok
        /\ Cardinality(Diagnostics({NameMismatch}))
              = Cardinality({b \in Blocks : Mismatched(b)})
        /\ \A e \in NodesOf({"TWIG_ENDING_BLOCK"}) : tree[e].parent \in Blocks

\* block a holds block b; `endblock a` closes the inner block b and is
\* reported, the second `endblock a` closes block a and is not
C8_Witness ==
    /\ pc = "done"
    /\ \E outer, inner \in Blocks :
          /\ tree[tree[inner].parent].parent = outer
          /\ Mismatched(inner)
          /\ ~Mismatched(outer)
          /\ NameOf(ChildNodes(inner)[3]) = NameOf(ChildNodes(outer)[3])
          /\ NameOf(ChildNodes(outer)[1]) = NameOf(ChildNodes(outer)[3])
    /\ Cardinality(Diagnostics({NameMismatch})) = 1

\* an expression was parsed in the starting block of block b
IsShortcut(b) ==
    \E c \in Range(ChildNodes(ChildNodes(b)[1])) : tree[c].kind = "TWIG_EXPRESSION"

\* C9 (block shortcut form): in the finished tree a TWIG_BLOCK holds no token
\* itself; its child nodes are TWIG_STARTING_BLOCK alone if an expression was
\* parsed in the starting block, and TWIG_STARTING_BLOCK, BODY,
\* TWIG_ENDING_BLOCK otherwise; so there are as many ending blocks, found or
\* reported missing, as blocks without an expression.
C9_BlockShortcut ==
    pc = "done" =>
        /\ \A b \in NodesOf({"TWIG_BLOCK"}) :
              /\ ChildTokens(b) = <<>>
              /\ ChildNodes(b) # <<>>
              /\ tree[ChildNodes(b)[1]].kind = "TWIG_STARTING_BLOCK"
              /\ IsShortcut(b) <=>
                    KindsOf(ChildNodes(b)) = <<"TWIG_STARTING_BLOCK">>
              /\ ~IsShortcut(b) <=>
                    KindsOf(ChildNodes(b))
                        = <<"TWIG_STARTING_BLOCK", "BODY", "TWIG_ENDING_BLOCK">>
        /\ Cardinality(NodesOf({"TWIG_ENDING_BLOCK"}))
              = Cardinality({b \in NodesOf({"TWIG_BLOCK"}) : ~IsShortcut(b)})

\* a block in shortcut form, without diagnostics, followed by a block with a
\* body
C9_Witness ==
    /\ pc = "done"
    /\ p.errors = <<>>
    /\ \E b, c \in NodesOf({"TWIG_BLOCK"}) :
          /\ IsShortcut(b)
          /\ Len(ChildNodes(b)) = 1
          /\ ~IsShortcut(c)
          /\ Len(ChildNodes(c)) = 3
          /\ b < c

\* the closing tags that match an opening tag
Matching(o) ==
    IF o = If THEN {EndIf} ELSE IF o = BlkB THEN {End, EndB} ELSE {End}

\* n openers followed by their closing tags, innermost first
WellNested(n) ==
    UNION {{Flatten(os) \o Flatten(Reverse(cs)) :
               cs \in {c \in [1..n -> Closers] :
                          \A i \in 1..n : c[i] \in Matching(os[i])}} :
           os \in [1..n -> Openers]}

\* the statements of the tree, in document order
Statements ==
    SelectSeq([j \in DOMAIN tree |-> j],
              LAMBDA j : IsNode(j) /\ tree[j].kind \in DOMAIN Wrappers)

\* the input position of the first token of node n
FirstToken(n) == tree[ChildTokens(n)[1]].tok

\* C10 (innermost pairing of closers): for n nested openers (blocks and ifs)
\* followed by their n closing tags, the finished tree has no diagnostics and
\* n statements; the first is a child of ROOT and each further one is a
\* child of the BODY of the one before; every statement has its starting
\* block, one BODY and its ending block, holding exactly the tokens of a
\* closing tag of its kind; and a statement deeper in the tree is closed by
\* an earlier closing tag.
C10_InnermostPairing ==
    \A n \in 1..MaxNest :
        pc = "done" /\ tokens \in WellNested(n) =>
            /\ p.errors = <<>>
            /\ Len(Statements) = n
            /\ tree[Statements[1]].parent = 1
            /\ \A i \in 1..n :
                  LET w == Statements[i]
                      cs == ChildNodes(w)
                  IN  /\ KindsOf(cs) = <<Wrappers[tree[w].kind][1], "BODY",
                                         Wrappers[tree[w].kind][2]>>
                      /\ TokensOfKind(cs[3], "{%") # {}
                      /\ TokensOfKind(cs[3], Wrappers[tree[w].kind][3]) # {}
                      /\ TokensOfKind(cs[3], "%}") # {}
                      /\ i < n =>
                            /\ tree[Statements[i + 1]].parent = cs[2]
                            /\ FirstToken(ChildNodes(Statements[i + 1])[3])
                                  < FirstToken(cs[3])
                      /\ i = n => Children(cs[2]) = <<>>

\* the deepest nest of statements of both kinds is closed
C10_Witness ==
    /\ pc = "done"
    /\ tokens \in WellNested(MaxNest)
    /\ Len(Statements) = MaxNest
    /\ {tree[Statements[i]].kind : i \in 1..MaxNest} = {"TWIG_BLOCK", "TWIG_IF"}
    /\ tree[tree[Statements[MaxNest]].parent].parent = Statements[MaxNest - 1]
    /\ p.errors = <<>>

----------------------------------------------------------------------------
(* C11..C14: the if and the set statements.                                *)

\* the kinds of the child nodes of a TWIG_IF with k elseif branches and,
\* when e, an else branch
IfShape(k, e) ==
    <<"TWIG_IF_BLOCK", "BODY">>
        \o Flatten([i \in 1..k |-> <<"TWIG_ELSE_IF_BLOCK", "BODY">>])
        \o (IF e THEN <<"TWIG_ELSE_BLOCK", "BODY">> ELSE <<>>)
        \o <<"TWIG_ENDIF_BLOCK">>

\* C11 (shape of TWIG_IF): for a well-formed if statement with k elseif
\* branches and an optional else branch, the finished tree has one TWIG_IF,
\* a child of ROOT, whose child nodes are, in order, TWIG_IF_BLOCK, BODY, a
\* TWIG_ELSE_IF_BLOCK and a BODY for each elseif, a TWIG_ELSE_BLOCK and a
\* BODY when there is an else, and TWIG_ENDIF_BLOCK; the TWIG_IF has no
\* token of its own and no diagnostic is recorded.
C11_ShapeOfIf ==
    \A k \in 0..MaxElseIf, e \in BOOLEAN :
        pc = "done" /\ tokens \in WellFormedIf(k, e) =>
            /\ p.errors = <<>>
            /\ Cardinality(NodesOf({"TWIG_IF"})) = 1
            /\ \A n \in NodesOf({"TWIG_IF"}) :
                  /\ tree[n].parent = 1
                  /\ KindsOf(ChildNodes(n)) = IfShape(k, e)
                  /\ ChildTokens(n) = <<>>

\* an if with the most elseif branches, an else branch and text in every body
C11_Witness ==
    /\ pc = "done"
    /\ tokens = IfWith([i \in 1..MaxElseIf |-> ElseIf] \o <<Else>>, Txt)
    /\ \E n \in NodesOf({"TWIG_IF"}) :
          /\ KindsOf(ChildNodes(n)) = IfShape(MaxElseIf, TRUE)
          /\ \A c \in Range(ChildNodes(n)) :
                tree[c].kind = "BODY" =>
                    KindsOf(ChildNodes(c)) = <<"HTML_TEXT">>
    /\ p.errors = <<>>

\* the branch headers of TWIG_IF node n, in document order
BranchHeaders(n) ==
    SelectSeq(KindsOf(ChildNodes(n)),
              LAMBDA k : k \in {"TWIG_ELSE_IF_BLOCK", "TWIG_ELSE_BLOCK"})

\* C12 (if grammar if (elseif)* (else)? endif): when the parse finishes
\* without a diagnostic, every TWIG_IF has at most one TWIG_ELSE_BLOCK, and
\* no branch header comes after it.
C12_IfGrammar ==
    pc = "done" /\ p.errors = <<>> =>
        \A n \in NodesOf({"TWIG_IF"}) :
            \A i \in DOMAIN BranchHeaders(n) :
                BranchHeaders(n)[i] = "TWIG_ELSE_BLOCK" =>
                    i = Len(BranchHeaders(n))

\* the TWIG_ASSIGNMENT nodes, in document order
Assignments ==
    SelectSeq([j \in DOMAIN tree |-> j],
              LAMBDA j : IsNode(j) /\ tree[j].kind = "TWIG_ASSIGNMENT")

\* whether the `=` of a set statement is in TWIG_ASSIGNMENT node n
IsAssignedByEqual(n) == TokensOfKind(n, "=") # {}

\* the first `=` of TWIG_ASSIGNMENT node n
EqualOf(n) == CHOOSE j \in TokensOfKind(n, "=") :
                  \A i \in TokensOfKind(n, "=") : j <= i

\* the names declared in TWIG_ASSIGNMENT node n
Declarations(n) ==
    {j \in Range(ChildNodes(n)) :
        /\ tree[j].kind = "TWIG_LITERAL_NAME"
        /\ IsAssignedByEqual(n) => j < EqualOf(n)}

\* the expressions assigned in TWIG_ASSIGNMENT node n
Expressions(n) ==
    {j \in Range(ChildNodes(n)) :
        tree[j].kind = "TWIG_EXPRESSION" /\ j > EqualOf(n)}

\* the set statements with `=` whose counts differ, in document order
UnequalAssignments ==
    SelectSeq(Assignments,
              LAMBDA n : /\ IsAssignedByEqual(n)
                         /\ Cardinality(Declarations(n))
                               # Cardinality(Expressions(n)))

\* the count diagnostics, in the order they were recorded
CountDiagnostics ==
    SelectSeq(p.errors, LAMBDA e : e.msg = "a total of twig expressions")

\* C13 (set arity check): in the finished tree the count diagnostics are,
\* in order, those of the set statements with `=` whose number D of names in
\* the TWIG_ASSIGNMENT differs from the number A of expressions in it, each
\* reporting D and A; and when the input has a single set statement, D and
\* A are the numbers of names and expressions the parser counted.
C13_SetArity ==
    pc = "done" =>
        /\ Len(CountDiagnostics) = Len(UnequalAssignments)
        /\ \A i \in DOMAIN CountDiagnostics :
              CountDiagnostics[i].args =
                  <<Cardinality(Declarations(UnequalAssignments[i])),
                    Cardinality(Expressions(UnequalAssignments[i]))>>
        /\ \A n \in Range(Assignments) :
              Len(Assignments) = 1 /\ IsAssignedByEqual(n) =>
                  /\ p.count = Cardinality(Declarations(n))
                  /\ p.assigned = Cardinality(Expressions(n))

\* a set statement with more names than expressions, then one with fewer
C13_Witness ==
    /\ pc = "done"
    /\ tokens = SetOf(MaxSetCount, 1) \o SetOf(1, MaxSetCount)
    /\ Len(Assignments) = 2
    /\ Len(CountDiagnostics) = 2
    /\ CountDiagnostics[1].args = <<MaxSetCount, 1>>
    /\ CountDiagnostics[2].args = <<1, MaxSetCount>>
    /\ Cardinality(Declarations(Assignments[1])) = MaxSetCount
    /\ Cardinality(Expressions(Assignments[2])) = MaxSetCount

\* the TWIG_ASSIGNMENT of TWIG_SET node n: the one in its TWIG_SET_BLOCK
AssignmentOf(n) ==
    CHOOSE a \in Range(Assignments) : tree[tree[a].parent].parent = n

\* the set statements without `=` that declare more than one name
CaptureOfMany ==
    SelectSeq(Assignments,
              LAMBDA n : /\ ~IsAssignedByEqual(n)
                         /\ Cardinality(Declarations(n)) > 1)

\* the diagnostics of a set statement without `=` and with several names
MissingEqualDiagnostics ==
    SelectSeq(p.errors, LAMBDA e : e.msg = "= followed by twig expressions")

\* C14 (set forms are exclusive): in the finished tree every TWIG_SET has
\* one TWIG_SET_BLOCK holding one TWIG_ASSIGNMENT; when the `=` is in the
\* TWIG_ASSIGNMENT the TWIG_SET_BLOCK is the only child node, otherwise the
\* child nodes are TWIG_SET_BLOCK, BODY, TWIG_ENDSET_BLOCK; and the
\* diagnostic asking for `=` is recorded once for every set statement
\* without `=` that declares more than one name, with the number of names.
C14_SetFormsExclusive ==
    pc = "done" =>
        /\ Cardinality(NodesOf({"TWIG_SET"})) = Len(Assignments)
        /\ \A n \in NodesOf({"TWIG_SET"}) :
              /\ \E a \in Range(Assignments) :
                    /\ tree[a].parent = ChildNodes(n)[1]
                    /\ tree[tree[a].parent].kind = "TWIG_SET_BLOCK"
              /\ KindsOf(ChildNodes(n)) =
                    IF IsAssignedByEqual(AssignmentOf(n))
                    THEN <<"TWIG_SET_BLOCK">>
                    ELSE <<"TWIG_SET_BLOCK", "BODY", "TWIG_ENDSET_BLOCK">>
        /\ Len(MissingEqualDiagnostics) = Len(CaptureOfMany)
        /\ \A i \in DOMAIN CaptureOfMany :
              MissingEqualDiagnostics[i].args =
                  <<Cardinality(Declarations(CaptureOfMany[i]))>>

\* a set statement without `=` holds one with `=` in its body
C14_Witness ==
    /\ pc = "done"
    /\ tokens = SetCaptureOf(MaxSetCount) \o SetOf(1, 2) \o EndSet
    /\ \E n, m \in NodesOf({"TWIG_SET"}) :
          /\ KindsOf(ChildNodes(n)) =
                <<"TWIG_SET_BLOCK", "BODY", "TWIG_ENDSET_BLOCK">>
          /\ tree[m].parent = ChildNodes(n)[2]
          /\ KindsOf(ChildNodes(m)) = <<"TWIG_SET_BLOCK">>
          /\ IsAssignedByEqual(AssignmentOf(m))
          /\ ~IsAssignedByEqual(AssignmentOf(n))
    /\ Len(MissingEqualDiagnostics) = 1

----------------------------------------------------------------------------
(* C27: progress of the parse_many loops of tags.rs.                       *)

\* the loops that tags.rs hands to parse_many
TagLoops ==
    {"body", "apply_arguments", "apply_filters", "use_overrides",
     "set_names", "set_expressions"}

\* C27 (loop progress): in every parse_many loop of tags.rs each run of the
\* child closure consumes a token or leaves the parser where the loop's exit
\* closure holds: no such loop is ever left with a child run that kept the
\* parser at the token it started from.
C27_LoopProgress == p.stalled \cap TagLoops = {}

----------------------------------------------------------------------------
(***************************************************************************)
(* Part 2: the indentation rule of                                         *)
(* crates/ludtwig/src/check/rules/indentation.rs, run on the tree the      *)
(* parser of part 1 builds from a source text.  The text is a sequence of  *)
(* characters; a token that is no trivia counts as one character.  The     *)
(* lexer and the suggestion applier are not part of the checked-in         *)
(* sources; they are modelled from the specification.                      *)
(***************************************************************************)

Space == [kind |-> "TK_WHITESPACE", text |-> " "]
Tab == [kind |-> "TK_WHITESPACE", text |-> "\t"]
LineBreak == [kind |-> "TK_LINE_BREAK", text |-> "\n"]

IsTriviaKind(k) == k \in {"TK_WHITESPACE", "TK_LINE_BREAK"}

\* where a token starts: a run of whitespace characters is one token
IsLexemeStart(src, i) ==
    \/ i = 1
    \/ src[i].kind # "TK_WHITESPACE"
    \/ src[i - 1].kind # "TK_WHITESPACE"

\* the last character of the token that character i is in
RECURSIVE LexemeEnd(_, _)
LexemeEnd(src, i) ==
    IF i < Len(src) /\ ~IsLexemeStart(src, i + 1) THEN LexemeEnd(src, i + 1)
    ELSE i

\* the token that starts at i: its kind, its characters and its text range
Lexeme(src, i) ==
    [kind |-> src[i].kind,
     text |-> [j \in 1..(LexemeEnd(src, i) - i + 1) |-> src[i + j - 1].text],
     range |-> <<i - 1, LexemeEnd(src, i)>>]

\* the tokens of a text, trivia included
lex(src) ==
    LET starts == SelectSeq([i \in DOMAIN src |-> i],
                            LAMBDA i : IsLexemeStart(src, i))
    IN  [k \in DOMAIN starts |-> Lexeme(src, starts[k])]

\* the token vector handed to the parser
NonTrivia(src) == SelectSeq(src, LAMBDA c : ~IsTriviaKind(c.kind))

\* the positions of the token vector that trivia stands in front of
TriviaPositions(src) ==
    {1 + Len(NonTrivia(SubSeq(src, 1, i))) :
        i \in {j \in DOMAIN src : IsTriviaKind(src[j].kind)}}

\* root(): the whole parse
root(q) == complete(parse_many(start(q), Loop("root")), 1, "ROOT")

\* IndentationMode::corresponding_char
corresponding_char(mode) == IF mode = "tabs" THEN "\t" ELSE " "

\* RuleContext::create_result(..).primary_note(..).suggestion(..)
CheckResult(message, range, replace_with) ==
    [rule_name |-> "indentation", severity |-> "Warning", message |-> message,
     primary |-> range,
     suggestions |-> <<[syntax_range |-> range, replace_with |-> replace_with]>>]

\* ctx.add_result(result)
add_result(st, result) == [st EXCEPT !.results = Append(@, result)]

\* as handle_first_token_in_line, but the suggested text is one level of
\* indentation whatever the depth
handle_first_token_in_line_suggests_one_level(st, token) ==
    LET indent_char == corresponding_char(config.indentation_mode)
        expected_str ==
            [i \in 1..(st.indentation * config.indentation_count) |-> indent_char]
        one_level == [i \in 1..config.indentation_count |-> indent_char]
    IN  IF token.kind = "TK_WHITESPACE"
        THEN IF token.text # expected_str
             THEN add_result(st, CheckResult("Wrong indentation", token.range,
                                             one_level))
             ELSE st
        ELSE IF st.indentation > 0
             THEN add_result(st, CheckResult("Missing indentation",
                                             <<token.range[1], token.range[1]>>,
                                             one_level))
             ELSE st

handle_first_token_in_line(st, token) ==
    LET indent_char == corresponding_char(config.indentation_mode)
        expected_str ==
            [i \in 1..(st.indentation * config.indentation_count) |-> indent_char]
    IN  IF token.kind = "TK_WHITESPACE"
        THEN IF token.text # expected_str
             THEN add_result(st, CheckResult("Wrong indentation", token.range,
                                             expected_str))
             ELSE st
        ELSE IF st.indentation > 0
             THEN add_result(st, CheckResult("Missing indentation",
                                             <<token.range[1], token.range[1]>>,
                                             expected_str))
             ELSE st

\* as enter_token, but line_break_encountered stays set behind whitespace
enter_token_keeps_flag(st, token) ==
    IF token.kind = "TK_LINE_BREAK"
    THEN [st EXCEPT !.line_break_encountered = TRUE]
    ELSE IF st.line_break_encountered
    THEN [handle_first_token_in_line(st, token)
             EXCEPT !.line_break_encountered = token.kind = "TK_WHITESPACE"]
    ELSE [st EXCEPT !.line_break_encountered = FALSE]

\* WalkEvent::Enter of a token
enter_token(st, token) ==
    IF token.kind = "TK_LINE_BREAK"
    THEN [st EXCEPT !.line_break_encountered = TRUE]
    ELSE IF st.line_break_encountered
    THEN [handle_first_token_in_line(st, token)
             EXCEPT !.line_break_encountered = FALSE]
    ELSE [st EXCEPT !.line_break_encountered = FALSE]

\* as indents, but the option indent_children_of_blocks is not looked at
indents_every_body(n) == tree[n].kind = "BODY"

\* indent_block_children || !n.parent().map_or(false, |p| p.kind() == TWIG_BLOCK)
indents(n) ==
    \/ config.indent_children_of_blocks
    \/ ~(tree[n].parent # 0 /\ tree[tree[n].parent].kind = "TWIG_BLOCK")

\* WalkEvent::Enter of node n
enter_node(st, n) ==
    [st EXCEPT !.open = Append(@, n),
               !.indentation =
                   IF tree[n].kind = "BODY" /\ indents(n) THEN @ + 1 ELSE @]

\* indentation -= 1 on the unsigned counter: at 0 the subtraction overflows
\* (a panic of a debug build, a wrap to the largest value in a release
\* build); `underflow` records that it happened, the counter is worthless then
decrement(st) ==
    IF st.indentation = 0 THEN [st EXCEPT !.underflow = TRUE]
    ELSE [st EXCEPT !.indentation = @ - 1]

\* pops the innermost open node
close_node(st) == [st EXCEPT !.open = SubSeq(@, 1, Len(@) - 1)]

\* as leave_node, but the counter is decremented on leaving any BODY
leave_node_every_body(st) ==
    close_node(IF tree[Top(st.open)].kind = "BODY" THEN decrement(st) ELSE st)

\* WalkEvent::Leave of the innermost open node
leave_node(st) ==
    close_node(IF tree[Top(st.open)].kind = "BODY" /\ indents(Top(st.open))
               THEN decrement(st) ELSE st)

\* the nodes left before an element with the given parent is entered
RECURSIVE leave_until(_, _)
leave_until(st, parent) ==
    IF Top(st.open) = parent THEN st
    ELSE leave_until(leave_node(st), parent)

\* the trivia tokens in front of a token are entered one after the other
RECURSIVE enter_trivia(_, _)
enter_trivia(st, lexemes) ==
    IF st.next <= Len(lexemes) /\ IsTriviaKind(lexemes[st.next].kind)
    THEN enter_trivia([enter_token(st, lexemes[st.next])
                          EXCEPT !.next = @ + 1], lexemes)
    ELSE st

\* the nodes still open when the last token was entered are left
RECURSIVE leave_all(_)
leave_all(st) == IF st.open = <<>> THEN st ELSE leave_all(leave_node(st))

\* `trace` keeps, for every token element the walk enters, the value of
\* the counter at that moment
visit(st, j) == [st EXCEPT !.trace = Append(@, <<j, st.indentation>>)]

\* one WalkEvent::Enter of the traversal: the nodes that end in front of
\* element j are left, then the element is entered
enter_element(st, lexemes, j) ==
    IF IsNode(j) THEN enter_node(leave_until(st, tree[j].parent), j)
    ELSE IF IsTrivia(j)
    THEN enter_trivia(visit(leave_until(st, tree[j].parent), j), lexemes)
    ELSE [enter_token(visit(leave_until(st, tree[j].parent), j),
                      lexemes[st.next])
             EXCEPT !.next = @ + 1]

\* the elements from..to of the tree are entered in their order, the first
\* half before the second (the walk never moves back in the token vector;
\* the comparison makes the first half's state known before the second
\* half starts, which keeps the evaluation shallow)
RECURSIVE enter_elements(_, _, _, _)
enter_elements(st, lexemes, from, to) ==
    IF from > to THEN st
    ELSE IF from = to THEN enter_element(st, lexemes, from)
    ELSE LET half == enter_elements(st, lexemes, from, (from + to) \div 2)
         IN  IF half.next >= st.next
             THEN enter_elements(half, lexemes, (from + to) \div 2 + 1, to)
             ELSE half

\* node.preorder_with_tokens(), from element j of the tree on
preorder_with_tokens(st, lexemes, j) ==
    leave_all(enter_elements(st, lexemes, j, Len(tree)))

\* the traversal of RuleIndentation::check_root, to its end
walk_root(src) ==
    preorder_with_tokens(
        [line_break_encountered |-> TRUE, indentation |-> 0, results |-> <<>>,
         open |-> <<>>, next |-> 1, trace |-> <<>>, underflow |-> FALSE],
        lex(src), 1)

\* RuleIndentation::check_root: the check results of one run
check_root(src) == walk_root(src).results

\* the suggestions of some check results
Suggestions(rs) == {rs[i].suggestions[k] : i \in DOMAIN rs, k \in {1}}

\* spec.md 4.G, 2: two suggestions whose ranges intersect
Overlapping(ss) ==
    \E a, b \in ss :
        /\ a # b
        /\ a.syntax_range[1] <= b.syntax_range[1]
        /\ b.syntax_range[1] < a.syntax_range[2]

\* the characters of a replacement text
Characters(str) == [i \in DOMAIN str |-> [kind |-> "TK_WHITESPACE", text |-> str[i]]]

\* one suggestion spliced into the text
splice(src, sg) ==
    SubSeq(src, 1, sg.syntax_range[1]) \o Characters(sg.replace_with)
        \o SubSeq(src, sg.syntax_range[2] + 1, Len(src))

\* spec.md 4.G, 3: the suggestions spliced in by descending start offset
RECURSIVE splice_descending(_, _)
splice_descending(src, ss) ==
    IF ss = {} THEN src
    ELSE LET last == CHOOSE a \in ss :
                         \A b \in ss : b.syntax_range[1] <= a.syntax_range[1]
         IN  splice_descending(splice(src, last), ss \ {last})

\* spec.md 4.G: the text with the suggestions applied; none when two overlap
apply_suggestions(src, ss) ==
    IF Overlapping(ss) THEN src ELSE splice_descending(src, ss)

----------------------------------------------------------------------------
(* The sources the rule is run on, and the run of check and fix.           *)

\* most spaces in front of a line of a source
MaxSpaces == 2
\* most indentation_count of a configuration
MaxCount == 2
\* most fixes applied to one source, one after the other
MaxFixes == 2

\* the tokens of a tag, separated by single spaces
RECURSIVE Spaced(_)
Spaced(ts) ==
    IF Len(ts) <= 1 THEN ts ELSE <<Head(ts), Space>> \o Spaced(Tail(ts))

Spaces(n) == [i \in 1..n |-> Space]

\* what may stand between two tags: nothing, a space, a line break followed
\* by spaces or a tab, an empty line, a line of whitespace only
Gaps ==
    {<<>>, <<Space>>, <<LineBreak, Tab>>, <<LineBreak, LineBreak>>,
     <<LineBreak, Space, LineBreak, Space>>}
        \cup {<<LineBreak>> \o Spaces(n) : n \in 0..MaxSpaces}

\* a line break followed by spaces
LineGaps == {<<LineBreak>> \o Spaces(n) : n \in 0..MaxSpaces}

\* the fragments fs, each after one of the gaps gs, and the last gap behind
Layout(fs, gs) ==
    Flatten([i \in DOMAIN fs |-> gs[i] \o Spaced(fs[i])]) \o gs[Len(fs) + 1]

\* every layout of the fragments fs with gaps of G between them
Layouts(fs, G) ==
    {Layout(fs, gs) :
        gs \in {g \in [1..(Len(fs) + 1) -> G \cup {<<>>, <<Space>>}] :
                   /\ g[1] \in {<<>>, <<Space>>}
                   /\ g[Len(fs) + 1] \in {<<>>, <<LineBreak>>}
                   /\ \A i \in 2..Len(fs) : g[i] \in G}}

\* {# ludtwig-ignore indentation #}
IgnoreIndentation ==
    <<T("{#"), T("ludtwig-ignore"), W("indentation"), T("#}")>>

\* a tag whose keyword is no statement
UnknownTag == Tag(<<W("b")>>)

\* sources whose trees have an empty BODY or an ERROR node
OddSources ==
    Layouts(<<BlkA, End>>, {<<>>, <<LineBreak>>})
        \cup Layouts(<<If, BlkA, End, UnknownTag>>, {<<>>, <<LineBreak>>})

IndentSources ==
    Layouts(<<BlkA, Txt, End>>, Gaps)
        \cup Layouts(<<Txt, Txt>>, Gaps)
        \cup Layouts(<<BlkA, If, Txt, EndIf, End>>, LineGaps)
        \cup Layouts(<<IgnoreIndentation, BlkA, Txt, End>>, LineGaps)
        \cup OddSources

Format(mode, count, indent_children) ==
    [indentation_mode |-> mode, indentation_count |-> count,
     indent_children_of_blocks |-> indent_children]

\* the default configuration, and ones that differ from it in one option
Configs ==
    {Format("spaces", c, TRUE) : c \in 1..MaxCount}
        \cup {Format("spaces", 1, FALSE), Format("tabs", 1, TRUE)}

IndentInit ==
    /\ text \in IndentSources
    /\ config \in Configs
    /\ results = <<>>
    /\ fixed = <<>>
    /\ tokens = <<>>
    /\ trivia = {}
    /\ p = NewParser
    /\ pc = "text"
    /\ tree = <<>>
    /\ NoPipeline
    /\ NoFunction

\* the lexer: the token vector of the parser, and where the trivia stands
Lex ==
    /\ pc = "text"
    /\ tokens' = NonTrivia(text)
    /\ trivia' = TriviaPositions(text)
    /\ p' = NewParser
    /\ tree' = <<>>
    /\ pc' = "lexed"
    /\ UNCHANGED <<lintVars, funVars, pipeVars>>

\* the parser has run to q: the sink builds the tree
ParsedTo(q) == p' = q /\ tree' = Sink(q.events, trivia)

Parse ==
    /\ pc = "lexed"
    /\ ParsedTo(root(p))
    /\ pc' = "tree"
    /\ UNCHANGED <<tokens, trivia, lintVars, funVars, pipeVars>>

\* the rule is run on the tree
CheckRoot ==
    /\ pc = "tree"
    /\ results' = check_root(text)
    /\ pc' = "checked"
    /\ UNCHANGED <<tokens, trivia, p, tree, text, config, fixed, funVars, pipeVars>>

\* the suggestions of the run are applied to the text
Fix ==
    /\ pc = "checked"
    /\ Len(fixed) < MaxFixes
    /\ text' = apply_suggestions(text, Suggestions(results))
    /\ fixed' = Append(fixed, text')
    /\ pc' = "text"
    /\ UNCHANGED <<tokens, trivia, p, tree, config, results, funVars, pipeVars>>

IndentNext == Lex \/ Parse \/ CheckRoot \/ Fix

IndentSpec == IndentInit /\ [][IndentNext]_vars

----------------------------------------------------------------------------
(* C15..C18: the indentation rule.                                         *)

\* where the lines of a text start
LineStarts(src) ==
    {i \in DOMAIN src : i = 1 \/ src[i - 1].kind = "TK_LINE_BREAK"}

\* the element of the tree that holds character i of the text: the token
\* itself, or the trivia in front of the next token
ElementAt(src, i) ==
    LET t == 1 + Len(NonTrivia(SubSeq(src, 1, i - 1)))
    IN  CHOOSE j \in DOMAIN tree :
            /\ tree[j].tok = t
            /\ IsTrivia(j) <=> IsTriviaKind(src[i].kind)
            /\ ~IsNode(j)

RECURSIVE Ancestors(_)
Ancestors(j) ==
    IF tree[j].parent = 0 THEN {}
    ELSE {tree[j].parent} \cup Ancestors(tree[j].parent)

\* the depth d of element j: its enclosing BODY nodes, without those of a
\* TWIG_BLOCK when the children of blocks are not indented
Depth(j) ==
    Cardinality({a \in Ancestors(j) :
                    /\ tree[a].kind = "BODY"
                    /\ \/ config.indent_children_of_blocks
                       \/ tree[tree[a].parent].kind # "TWIG_BLOCK"})

\* d x indentation_count indent characters
ExpectedIndentation(d) ==
    [k \in 1..(d * config.indentation_count) |->
        IF config.indentation_mode = "tabs" THEN "\t" ELSE " "]

\* the whitespace a line starts with
LeadingWhitespace(src, i) ==
    IF src[i].kind = "TK_WHITESPACE" THEN Lexeme(src, i).text ELSE <<>>

\* the lines the rule has to report: the first token is whitespace other
\* than the expected, or it is no whitespace, no line break, and d > 0
Reported(src, i) ==
    /\ i \in LineStarts(src)
    /\ src[i].kind # "TK_LINE_BREAK"
    /\ LeadingWhitespace(src, i) # ExpectedIndentation(Depth(ElementAt(src, i)))

\* the one check result of a reported line
ReportOf(src, i) ==
    [rule_name |-> "indentation", severity |-> "Warning",
     message |-> IF src[i].kind = "TK_WHITESPACE" THEN "Wrong indentation"
                 ELSE "Missing indentation",
     primary |-> IF src[i].kind = "TK_WHITESPACE" THEN Lexeme(src, i).range
                 ELSE <<i - 1, i - 1>>,
     suggestions |->
         <<[syntax_range |-> IF src[i].kind = "TK_WHITESPACE"
                             THEN Lexeme(src, i).range ELSE <<i - 1, i - 1>>,
            replace_with |-> ExpectedIndentation(Depth(ElementAt(src, i)))]>>]

\* the check results the lines of a text call for, in the order of the lines
Reports(src) ==
    LET lines == SelectSeq([i \in DOMAIN src |-> i],
                           LAMBDA i : Reported(src, i))
    IN  [k \in DOMAIN lines |-> ReportOf(src, lines[k])]

C16_FixIdempotent ==
    /\ pc = "checked" /\ fixed # <<>> => results = <<>>
    /\ \A k \in 2..Len(fixed) : fixed[k] = fixed[1]

\* a first fix changed the text, the rule was run on the new text, and a
\* second fix was made
C16_Witness ==
    /\ Len(fixed) = 2
    /\ pc = "text"
    /\ \E i \in DOMAIN fixed[1] :
          /\ fixed[1][i].kind = "TK_WHITESPACE"
          /\ i > 1
          /\ fixed[1][i - 1].kind = "TK_LINE_BREAK"
    /\ results = <<>>
    /\ text = fixed[1]

\* the line that character i of a text is in: the line breaks in front of it
LineOf(src, i) ==
    Cardinality({j \in 1..(i - 1) : src[j].kind = "TK_LINE_BREAK"})

\* the text ranges a and b intersect, or a zero-length one of them lies
\* inside or at the boundary of the other
Intersect(a, b) == a[1] <= b[2] /\ b[1] <= a[2]

\* C17 (suggestion non-overlap): the check results of one run have exactly
\* one suggestion each, no two of them are for the same line of the text,
\* and no two suggestion ranges intersect or touch.
C17_NonOverlap ==
    pc = "checked" =>
        /\ \A i \in DOMAIN results : Len(results[i].suggestions) = 1
        /\ \A i, k \in DOMAIN results :
              i # k =>
                  /\ LineOf(text, results[i].primary[1] + 1)
                        # LineOf(text, results[k].primary[1] + 1)
                  /\ ~Intersect(results[i].suggestions[1].syntax_range,
                                results[k].suggestions[1].syntax_range)

\* a run emits a replacement of whitespace and, for the next line, an
\* insertion
C17_Witness ==
    /\ pc = "checked"
    /\ \E i, k \in DOMAIN results :
          /\ results[i].message = "Wrong indentation"
          /\ results[k].message = "Missing indentation"
          /\ LineOf(text, results[k].primary[1] + 1)
                = LineOf(text, results[i].primary[1] + 1) + 1

\* the node in front of node n among the children of its parent, 0 if none
PrevSibling(n) ==
    LET before == SelectSeq(ChildNodes(tree[n].parent), LAMBDA m : m < n)
    IN  IF tree[n].parent = 0 \/ before = <<>> THEN 0
        ELSE before[Len(before)]

\* node d is a directive {# ludtwig-ignore ... #} that names the rule
IgnoresRule(d, rule) ==
    /\ tree[d].kind = "LUDTWIG_DIRECTIVE_IGNORE"
    /\ \E c \in Range(ChildTokens(d)) : tokens[tree[c].tok].text = rule

\* element j is in a node that a directive in front of it exempts
Ignored(j, rule) ==
    \E n \in Ancestors(j) :
        PrevSibling(n) # 0 /\ IgnoresRule(PrevSibling(n), rule)

\* C18 (ignore honoring): a run of the rule emits no check result for a
\* token of a node whose previous sibling is the directive
\* {# ludtwig-ignore indentation #}.
C18_IgnoreHonored ==
    pc = "checked" =>
        \A i \in DOMAIN results :
            ~Ignored(ElementAt(text, results[i].primary[1] + 1), "indentation")

----------------------------------------------------------------------------
(* C28: the depth counter of RuleIndentation::check_root.                  *)

\* the elements of the tree that are tokens or trivia
TokenElements == {j \in DOMAIN tree : ~IsNode(j)}

\* at the end of the walk st: nothing underflowed, every token element was
\* entered once with the counter at the number of its counted BODY
\* ancestors, every node was left and the counter is 0 again
CounterHolds(st) ==
    /\ ~st.underflow
    /\ {st.trace[i][1] : i \in DOMAIN st.trace} = TokenElements
    /\ Len(st.trace) = Cardinality(TokenElements)
    /\ \A i \in DOMAIN st.trace : st.trace[i][2] = Depth(st.trace[i][1])
    /\ st.open = <<>>
    /\ st.indentation = 0

\* C28 (indentation depth counter): during check_root the counter never
\* underflows, at every token it equals the number of enclosing counted
\* BODY nodes, and it is 0 when the traversal has ended, for every tree.
C28_DepthCounter == pc = "checked" => CounterHolds(walk_root(text))

\* the tree of a checked text has an ERROR node, an empty BODY, a BODY that
\* is not counted and a token of an ERROR node inside a counted BODY
C28_Witness ==
    /\ pc = "checked"
    /\ NodesOf({"ERROR"}) # {}
    /\ \E b \in NodesOf({"BODY"}) : Children(b) = <<>>
    /\ \E b \in NodesOf({"BODY"}) : ~indents(b)
    /\ \E j \in TokenElements :
          Depth(j) >= 1 /\ tree[tree[j].parent].kind = "ERROR"

----------------------------------------------------------------------------
(***************************************************************************)
(* Part 3: the file pipeline of src/main.rs (app, handle_input_path) and   *)
(* src/writer.rs (write_tree).  Every task is a process of its own; a step *)
(* of a task is the code between two of its await points.  process_file    *)
(* and the output handler are not part of the checked-in sources; they     *)
(* are modelled from the specification (parse, lint, write, then publish   *)
(* the diagnostics; one task that consumes the channel).                   *)
(***************************************************************************)

\* most input paths on the command line
MaxArgs == 2
\* most messages one file task sends
MaxDiagnostics == 2
\* the capacity of the channel: channel::bounded(32), scaled down
ChannelBound == 2

\* str::starts_with and str::ends_with on sequences of characters
starts_with(s, t) == Len(s) >= Len(t) /\ SubSeq(s, 1, Len(t)) = t
ends_with(s, t) ==
    Len(s) >= Len(t) /\ SubSeq(s, Len(s) - Len(t) + 1, Len(s)) = t

\* file names, character by character
DotTwig == <<".", "t", "w", "i", "g">>
Dot == <<".">>
DotSlash == <<".", "/">>
DotDot == <<".", ".">>
NameD == <<"d">>
NameB == <<"b">> \o DotTwig
NameC == <<"c">> \o DotTwig
NameE == <<"e", ".", "t", "x", "t">>
NameH == <<".", "h">> \o DotTwig
NameG == <<".", "g">>
NameT == <<"t">> \o DotTwig
NameOut == <<"o", "u", "t">>

\* a path: its components, and whether it starts at the root directory
Path(absolute, components) ==
    [absolute |-> absolute, components |-> components]
Relative(components) == Path(FALSE, components)

\* the directories and the regular files below the working directory, by
\* their components: d holds a template, a file that is no template, a
\* hidden template, a hidden directory with a template in it, and a
\* directory whose name ends with .twig.  The working directory is the
\* root directory.
Directories == {<<>>, <<NameD>>, <<NameD, NameG>>, <<NameD, NameT>>}
RegularFiles ==
    {<<NameD, NameB>>, <<NameD, NameE>>, <<NameD, NameH>>,
     <<NameD, NameG, NameC>>}

\* a path without its `.` and `./` components
Resolve(path) ==
    SelectSeq(path.components, LAMBDA c : c \notin {Dot, DotSlash})

\* the names in a directory, in the order read_dir yields them
ReadDir(path) ==
    LET names == <<NameD, NameE, NameH, NameG, NameC, NameT, NameB>>
    IN  SelectSeq(names,
                  LAMBDA n : Append(Resolve(path), n)
                                 \in Directories \cup RegularFiles)

\* DirEntry: path(), file_type().is_file() and file_name()
Entry(path) ==
    [path |-> path,
     is_file |-> Resolve(path) \in RegularFiles,
     name |-> path.components[Len(path.components)]]

\* as is_hidden, but every name that starts with a dot counts as hidden
is_hidden_every_dot(entry) == ~starts_with(entry.name, Dot)

\* fn is_hidden: true for the entries that are NOT hidden
is_hidden(entry) ==
    ~(/\ starts_with(entry.name, Dot)
      /\ entry.name # Dot
      /\ entry.name # DotSlash)

\* s.ends_with(".twig")
ends_with_twig(entry) == ends_with(entry.name, DotTwig)

Child(path, n) == Path(path.absolute, Append(path.components, n))

\* WalkDir::new(path).into_iter().filter_entry(|e| is_hidden(e)): the
\* entries depth first; an entry that does not pass the filter is skipped,
\* and so is everything below it
RECURSIVE filter_entry(_)
filter_entry(path) ==
    IF ~is_hidden(Entry(path)) THEN <<>>
    ELSE <<Entry(path)>>
             \o (IF Resolve(path) \in Directories
                 THEN Flatten([k \in DOMAIN ReadDir(path) |->
                                  filter_entry(Child(path, ReadDir(path)[k]))])
                 ELSE <<>>)

\* WalkDir::new(path).into_iter(): the walk without a filter
RECURSIVE WalkDir(_)
WalkDir(path) ==
    <<Entry(path)>>
        \o (IF Resolve(path) \in Directories
            THEN Flatten([k \in DOMAIN ReadDir(path) |->
                             WalkDir(Child(path, ReadDir(path)[k]))])
            ELSE <<>>)

\* command lines: a directory, a file in it and the parent of the working
\* directory; a file by its absolute path and the working directory; a
\* template in a hidden directory and the hidden directory
InputPaths ==
    {<<Relative(<<NameD>>), Relative(<<NameD, NameB>>),
       Relative(<<DotDot>>)>>,
     <<Path(TRUE, <<NameD, NameB>>), Relative(<<Dot>>)>>,
     <<Relative(<<NameD, NameG, NameC>>), Relative(<<NameD, NameG>>)>>}

\* Option<PathBuf>: <<>> for None, <<path>> for Some(path)
OutputPaths == {<<>>, <<Relative(<<NameOut>>)>>}

\* Path::join: an absolute path replaces the base
join(base_path, file_path) ==
    IF file_path.absolute THEN file_path
    ELSE Path(base_path.absolute,
              base_path.components \o file_path.components)

\* create_and_secure_output_path: None => Path::new("")
create_and_secure_output_path(output_path, file_path) ==
    join(IF output_path = <<>> THEN Relative(<<>>) ELSE output_path[1],
         file_path)

\* the command lines tried: the first 1..MaxArgs paths of each
ArgLists ==
    UNION {{SubSeq(files, 1, k) : k \in 1..MaxArgs \cap DOMAIN files} :
              files \in InputPaths}

\* what the parts other than the pipeline stand at
restVars == <<tokens, trivia, p, tree, lintVars, funVars>>

PipeInit ==
    /\ \E files \in ArgLists, output_path \in OutputPaths :
          walkers = [i \in DOMAIN files |->
                        [path |-> files[i], output_path |-> output_path,
                         state |-> "new", entries |-> <<>>]]
    /\ tasks = <<>>
    /\ disk = {}
    /\ channel = <<>>
    /\ received = <<>>
    /\ output_handler = "running"
    /\ pc = "app"
    /\ tokens = <<>>
    /\ trivia = {}
    /\ p = NewParser
    /\ tree = <<>>
    /\ NoLint
    /\ NoFunction

\* app: futures.push(task::spawn(handle_input_path(path, context))), in the
\* order of the command line; the task starts its walk
SpawnInputPath(w) ==
    /\ pc = "app"
    /\ walkers[w].state = "new"
    /\ \A v \in 1..(w - 1) : walkers[v].state # "new"
    /\ walkers' = [walkers EXCEPT
                      ![w].state = "walking",
                      ![w].entries = filter_entry(walkers[w].path)]
    /\ UNCHANGED <<restVars, pc, tasks, disk, channel, received,
                   output_handler>>

\* handle_input_path: one round of the loop over the entries; an entry that
\* is a template gets its process_file task, then the walker yields
WalkEntry(w) ==
    /\ walkers[w].state = "walking"
    /\ walkers[w].entries # <<>>
    /\ walkers' = [walkers EXCEPT ![w].entries = Tail(@)]
    /\ tasks' =
          IF Head(walkers[w].entries).is_file
                /\ ends_with_twig(Head(walkers[w].entries))
          THEN Append(tasks, [file_path |-> Head(walkers[w].entries).path,
                              output_path |-> walkers[w].output_path,
                              walker |-> w, state |-> "spawned",
                              diagnostics |-> 0, sent |-> 0])
          ELSE tasks
    /\ UNCHANGED <<restVars, pc, disk, channel, received, output_handler>>

\* handle_input_path: the walk is over, the walker awaits its tasks
WalkDone(w) ==
    /\ walkers[w].state = "walking"
    /\ walkers[w].entries = <<>>
    /\ walkers' = [walkers EXCEPT ![w].state = "awaiting"]
    /\ UNCHANGED <<restVars, pc, tasks, disk, channel, received,
                   output_handler>>

\* process_file: the file is read, parsed and checked; the check leaves
\* some number of diagnostics
ProcessFile(t) ==
    /\ tasks[t].state = "spawned"
    /\ \E n \in 0..MaxDiagnostics :
          tasks' = [tasks EXCEPT ![t].state = "processed",
                                 ![t].diagnostics = n]
    /\ UNCHANGED <<restVars, pc, walkers, disk, channel, received,
                   output_handler>>

\* write_tree: create_and_secure_output_path, then File::create(path)
CreateFile(t) ==
    /\ tasks[t].state = "processed"
    /\ tasks' = [tasks EXCEPT ![t].state = "writing"]
    /\ disk' = disk \cup
                 {[path |-> create_and_secure_output_path(
                                tasks[t].output_path, tasks[t].file_path),
                   task |-> t]}
    /\ UNCHANGED <<restVars, pc, walkers, channel, received, output_handler>>

\* write_tree: print_node and writer.flush(); the diagnostics are next
WriteTree(t) ==
    /\ tasks[t].state = "writing"
    /\ tasks' = [tasks EXCEPT ![t].state = "publishing"]
    /\ UNCHANGED <<restVars, pc, walkers, disk, channel, received,
                   output_handler>>

\* OutputMessage: the n-th message of the task for a file
OutputMessage(t, n) == [file |-> t, n |-> n]

\* Sender::send on the bounded channel: possible when the channel is not
\* full; a sender that finds it full waits
can_send == Len(channel) < ChannelBound

\* as send_output, but the message overtakes the messages in the channel
send_output_in_front(msg) == can_send /\ channel' = <<msg>> \o channel

\* as send_output, but a message that finds the channel full is dropped
send_output_or_drop(msg) ==
    channel' = IF can_send THEN Append(channel, msg) ELSE channel

\* CliContext::send_output: self.output_tx.send(msg).await
send_output(msg) == can_send /\ channel' = Append(channel, msg)

\* process_file: the next diagnostic is published
SendOutput(t) ==
    /\ tasks[t].state = "publishing"
    /\ tasks[t].sent < tasks[t].diagnostics
    /\ send_output(OutputMessage(t, tasks[t].sent + 1))
    /\ tasks' = [tasks EXCEPT ![t].sent = @ + 1]
    /\ UNCHANGED <<restVars, pc, walkers, disk, received, output_handler>>

\* process_file returns: its Arc<CliContext> is dropped
FinishFile(t) ==
    /\ tasks[t].state = "publishing"
    /\ tasks[t].sent = tasks[t].diagnostics
    /\ tasks' = [tasks EXCEPT ![t].state = "finished"]
    /\ UNCHANGED <<restVars, pc, walkers, disk, channel, received,
                   output_handler>>

\* handle_input_path: for f in futures_processes { f.await }; the task
\* returns and its Arc<CliContext> is dropped
AwaitFiles(w) ==
    /\ walkers[w].state = "awaiting"
    /\ \A t \in DOMAIN tasks :
          tasks[t].walker = w => tasks[t].state = "finished"
    /\ walkers' = [walkers EXCEPT ![w].state = "done"]
    /\ UNCHANGED <<restVars, pc, tasks, disk, channel, received,
                   output_handler>>

\* every Arc<CliContext>, and with the last of them the Sender, is dropped:
\* app drops its own behind the loop that spawns, a task when it returns
SendersDropped ==
    /\ \A w \in DOMAIN walkers : walkers[w].state = "done"
    /\ \A t \in DOMAIN tasks : tasks[t].state = "finished"

\* the message recv takes from the channel
recv == Head(channel)

\* handle_processing_output: rx.recv().await yields a message
HandleOutput ==
    /\ output_handler = "running"
    /\ channel # <<>>
    /\ received' = Append(received, recv)
    /\ channel' = SelectSeq(channel, LAMBDA m : m # recv)
    /\ UNCHANGED <<restVars, pc, walkers, tasks, disk, output_handler>>

\* recv fails: the channel is empty and every Sender is dropped
closed == channel = <<>> /\ SendersDropped

\* handle_processing_output: the loop ends, the task returns
OutputDone ==
    /\ output_handler = "running"
    /\ closed
    /\ output_handler' = "finished"
    /\ UNCHANGED <<restVars, pc, walkers, tasks, disk, channel, received>>

\* as AwaitInputPaths, but app does not wait for the tasks
AwaitNothing ==
    /\ pc = "app"
    /\ \A w \in DOMAIN walkers : walkers[w].state # "new"
    /\ pc' = "output"
    /\ UNCHANGED <<restVars, pipeVars>>

\* app: for t in futures { t.await }
AwaitInputPaths ==
    /\ pc = "app"
    /\ \A w \in DOMAIN walkers : walkers[w].state = "done"
    /\ pc' = "output"
    /\ UNCHANGED <<restVars, pipeVars>>

\* app: let process_code = output_handler.await; Ok(process_code)
AwaitOutputHandler ==
    /\ pc = "output"
    /\ output_handler = "finished"
    /\ pc' = "exit"
    /\ UNCHANGED <<restVars, pipeVars>>

PipeNext ==
    \/ \E w \in DOMAIN walkers : SpawnInputPath(w)
    \/ \E w \in DOMAIN walkers : WalkEntry(w)
    \/ \E w \in DOMAIN walkers : WalkDone(w)
    \/ \E t \in DOMAIN tasks : ProcessFile(t)
    \/ \E t \in DOMAIN tasks : CreateFile(t)
    \/ \E t \in DOMAIN tasks : WriteTree(t)
    \/ \E t \in DOMAIN tasks : SendOutput(t)
    \/ \E t \in DOMAIN tasks : FinishFile(t)
    \/ \E w \in DOMAIN walkers : AwaitFiles(w)
    \/ HandleOutput
    \/ OutputDone
    \/ AwaitInputPaths
    \/ AwaitOutputHandler

PipeSpec == PipeInit /\ [][PipeNext]_vars

\* the executor polls every task that can run: a step that stays possible
\* is taken
FairPipeSpec == PipeSpec /\ WF_vars(PipeNext)

----------------------------------------------------------------------------
(* C19, C20: the file pipeline.                                            *)

\* the process_file tasks that are spawned and not finished
Unfinished == {t \in DOMAIN tasks : tasks[t].state # "finished"}

\* a limit below the number of files of the largest command line
ConcurrencyLimit == MaxArgs - 1

\* C19 (bounded parallelism): the number of process_file tasks that are
\* spawned and not finished never exceeds the concurrency limit, a number
\* smaller than the number of files to process.
C19_BoundedParallelism == Cardinality(Unfinished) <= ConcurrencyLimit

\* C20 (output-path exclusivity): no output path is created by two tasks.
C20_OutputPathExclusive ==
    \A a, b \in disk : a.path = b.path => a.task = b.task

(* C23: file selection.                                                    *)

\* a name that starts with a dot and is neither `.` nor `./`
HiddenName(name) == starts_with(name, Dot) /\ name \notin {Dot, DotSlash}

\* the names from the root argument down to an entry below it
NamesFrom(from, path) ==
    {path.components[i] :
        i \in Len(from.components)..Len(path.components)}

\* the entries below a root argument that are regular files, have a name
\* that ends with .twig, and have no hidden name from the root down
Selected(from) ==
    {e.path : e \in {x \in Range(WalkDir(from)) :
                        /\ x.is_file
                        /\ ends_with(x.name, DotTwig)
                        /\ \A n \in NamesFrom(from, x.path) : ~HiddenName(n)}}

\* the paths handed to process_file by a walker
Processed(w) ==
    {tasks[t].file_path : t \in {u \in DOMAIN tasks : tasks[u].walker = w}}

\* the walk of a walker is over
Walked(w) == walkers[w].state \in {"awaiting", "done"}

HasPrefix(path, base) ==
    /\ path.absolute = base.absolute
    /\ Len(path.components) >= Len(base.components)
    /\ SubSeq(path.components, 1, Len(base.components)) = base.components

\* the input path mirrored under a directory
Mirrored(dir, file_path) ==
    Path(dir.absolute, dir.components \o file_path.components)

\* the file the task wrote is where the claim puts it
WrittenInPlace(f) ==
    IF tasks[f.task].output_path = <<>>
    THEN f.path = tasks[f.task].file_path
    ELSE /\ f.path = Mirrored(tasks[f.task].output_path[1],
                              tasks[f.task].file_path)
         /\ HasPrefix(f.path, tasks[f.task].output_path[1])
         /\ f.path # tasks[f.task].file_path

\* C24 (output location): with an output path DIR the file written for an
\* input file is the input path mirrored under DIR, has DIR as a prefix and
\* is not the input file; without an output path it is the input file.
C24_OutputLocation == \A f \in disk : WrittenInPlace(f)

(* C21, C29, C22: the channel and the shutdown.                            *)

\* the messages of one file in a sequence of messages, in their order
OfFile(msgs, t) == SelectSeq(msgs, LAMBDA m : m.file = t)

\* the messages a task has sent, in the order it sent them
SentBy(t) == [n \in 1..tasks[t].sent |-> OutputMessage(t, n)]

\* a sequence is the beginning of another
IsPrefix(a, b) == Len(a) <= Len(b) /\ SubSeq(b, 1, Len(a)) = a

\* C21 (per-file message order): the messages of a file the output handler
\* has received are, in their order, the first messages its task sent.
C21_PerFileOrder ==
    \A t \in DOMAIN tasks : IsPrefix(OfFile(received, t), SentBy(t))

\* two messages of one file were received, and a message of another file
\* between them
C21_Witness ==
    \E i, j, k \in DOMAIN received :
        /\ i < j /\ j < k
        /\ received[i].file = received[k].file
        /\ received[j].file # received[i].file

\* C29 (no message loss): the channel never holds more messages than its
\* capacity; every message sent is in the channel or received, and once the
\* handler has finished every message of every task has been received.
C29_NoMessageLoss ==
    /\ Len(channel) <= ChannelBound
    /\ \A t \in DOMAIN tasks :
          /\ OfFile(received, t) \o OfFile(channel, t) = SentBy(t)
          /\ output_handler = "finished" =>
                /\ tasks[t].sent = tasks[t].diagnostics
                /\ OfFile(received, t) = SentBy(t)

\* the messages a task has still to send
Unsent(t) == tasks[t].diagnostics - tasks[t].sent

\* the channel is full and a task with a message to send waits, while
\* another message has been received already
C29_Witness ==
    /\ Len(channel) = ChannelBound
    /\ received # <<>>
    /\ \E t \in DOMAIN tasks :
          tasks[t].state = "publishing" /\ Unsent(t) > 0

\* C22 (shutdown): app goes on to await the output handler only when every
\* input-path task and every file task has finished; under fair
\* scheduling the handler then drains the channel and finishes, and app
\* returns.
C22_Shutdown ==
    /\ [](pc \in {"output", "exit"} => SendersDropped)
    /\ [](pc = "exit" => output_handler = "finished" /\ channel = <<>>)
    /\ <>(pc = "exit")

\* app has returned after two file tasks that sent messages
C22_Witness ==
    /\ pc = "exit"
    /\ Len(tasks) >= 2
    /\ \A t \in DOMAIN tasks : tasks[t].sent > 0

----------------------------------------------------------------------------
(***************************************************************************)
(* Part 4: vue_block of src/libs/twig/src/parser/vue.rs, a parser built    *)
(* from nom combinators.  A text is a sequence of characters; a parser     *)
(* returns Err, or the remaining input and what it matched.                *)
(***************************************************************************)

\* most pieces of an input behind its opening braces
MaxVue == 6

Err == [ok |-> FALSE]
Ok(rest, content) == [ok |-> TRUE, rest |-> rest, content |-> content]

\* the whitespace of the inputs (multispace0 also takes tabs and line breaks)
Multispace == {" "}

\* nom::character::complete::multispace0: what is left behind the whitespace
RECURSIVE multispace0(_)
multispace0(s) ==
    IF s # <<>> /\ Head(s) \in Multispace THEN multispace0(Tail(s)) ELSE s

\* where pattern t stands in s
Occurrences(s, t) ==
    {i \in 1..Len(s) : starts_with(SubSeq(s, i, Len(s)), t)}

First(S) == CHOOSE i \in S : \A k \in S : i <= k

\* the text in front of position i, and the rest from i on
split_at(s, i) == Ok(SubSeq(s, i, Len(s)), SubSeq(s, 1, i - 1))

\* nom::bytes::complete::take_until: the text in front of the first
\* occurrence of t, which stays in the input; Err when t does not occur
take_until(s, t) ==
    IF Occurrences(s, t) = {} THEN Err
    ELSE split_at(s, First(Occurrences(s, t)))

\* nom::bytes::complete::tag
tag(s, t) ==
    IF starts_with(s, t) THEN Ok(SubSeq(s, Len(t) + 1, Len(s)), t) ELSE Err

OpenBraces == <<"{", "{">>
CloseBraces == <<"}", "}">>
SpaceCloseBraces == <<" ", "}", "}">>

\* alt((take_until(" }}"), take_until("}}"))): the second parser is tried
\* when the first failed
alt_take_until(s) ==
    IF take_until(s, SpaceCloseBraces).ok THEN take_until(s, SpaceCloseBraces)
    ELSE take_until(s, CloseBraces)

\* delimited(multispace0, content, multispace0) followed by tag("}}") and
\* the outer multispace0, behind the opening braces
vue_content(s) ==
    LET r == alt_take_until(multispace0(s))
    IN  IF ~r.ok THEN Err
        ELSE IF ~tag(multispace0(r.rest), CloseBraces).ok THEN Err
        ELSE Ok(multispace0(tag(multispace0(r.rest), CloseBraces).rest),
                r.content)

\* vue_block(input)
vue_block(s) ==
    IF ~tag(multispace0(s), OpenBraces).ok THEN Err
    ELSE vue_content(tag(multispace0(s), OpenBraces).rest)

\* the pieces the inputs are made of
VuePieces == {OpenBraces, CloseBraces, <<" ">>, <<"a">>}

\* inputs that start, after optional whitespace, with "{{"
VueInputs ==
    {lead \o OpenBraces \o Flatten(ps) :
        lead \in {<<>>, <<" ">>}, ps \in SeqsUpTo(VuePieces, MaxVue)}

VueInit ==
    /\ input \in VueInputs
    /\ res = <<>>
    /\ node = <<>>
    /\ writer = <<>>
    /\ pc = "input"
    /\ tokens = <<>>
    /\ trivia = {}
    /\ p = NewParser
    /\ tree = <<>>
    /\ NoLint
    /\ NoPipeline

VueBlock ==
    /\ pc = "input"
    /\ res' = vue_block(input)
    /\ pc' = "vue_block"
    /\ UNCHANGED <<tokens, trivia, p, tree, lintVars, pipeVars, input, node,
                   writer>>

VueNext == VueBlock

VueSpec == VueInit /\ [][VueNext]_vars

----------------------------------------------------------------------------
(* C30: what vue_block takes as the content.                               *)

\* the input behind its opening braces and the whitespace that follows them
BehindOpen(s) == multispace0(tag(multispace0(s), OpenBraces).rest)

Contains(s, t) == Occurrences(s, t) # {}

\* s without the one space it ends with, if it ends with one
WithoutLastSpace(s) ==
    IF s # <<>> /\ s[Len(s)] = " " THEN SubSeq(s, 1, Len(s) - 1) ELSE s

\* the text between the opening braces and the first "}}" behind them
UpToFirstClose(s) == take_until(BehindOpen(s), CloseBraces)

\* C30 (vue_block delimiting): for an input that starts with "{{" and has a
\* "}}" behind it, the content is the text up to the first "}}" without
\* leading whitespace and without the one space in front of "}}", it never
\* contains "}}", and the remaining input starts behind that first "}}" and
\* the whitespace that follows it.
C30_VueDelimiting ==
    pc = "vue_block" /\ UpToFirstClose(input).ok =>
        /\ res.ok
        /\ res.content = WithoutLastSpace(UpToFirstClose(input).content)
        /\ ~Contains(res.content, CloseBraces)
        /\ res.rest =
              multispace0(tag(UpToFirstClose(input).rest, CloseBraces).rest)

----------------------------------------------------------------------------
(***************************************************************************)
(* Part 5: print_node of src/writer.rs.  What a function writes is the     *)
(* sequence `out` of the byte strings it hands to write_all, one element   *)
(* per call; `marks` keeps, for the node at each path, where in that       *)
(* sequence its output starts and where it ends.  A path is the sequence   *)
(* of child indexes from the node print_node was first called with.        *)
(***************************************************************************)

\* most children of a node
MaxSiblings == 3

HtmlNode(type, name, attributes, self_closed, children) ==
    [type |-> type, name |-> name, attributes |-> attributes,
     self_closed |-> self_closed, children |-> children]

\* Option::None of a node
None == HtmlNode("None", "", <<>>, FALSE, <<>>)

Whitespace == HtmlNode("Whitespace", "", <<>>, FALSE, <<>>)
Plain == HtmlNode("Plain", "x", <<>>, FALSE, <<>>)
Comment == HtmlNode("Comment", "x", <<>>, FALSE, <<>>)
VueBlockNode == HtmlNode("VueBlock", "x", <<>>, FALSE, <<>>)
TwigParentCall == HtmlNode("TwigParentCall", "", <<>>, FALSE, <<>>)
TwigComment == HtmlNode("TwigComment", "x", <<>>, FALSE, <<>>)
TagOf(children) == HtmlNode("Tag", "a", <<>>, FALSE, children)
TwigBlock(children) == HtmlNode("TwigBlock", "a", <<>>, FALSE, children)
Root(children) == HtmlNode("Root", "", <<>>, FALSE, children)

\* HtmlAttribute; the value is <<>> for None and <<v>> for Some(v)
HtmlAttribute(name, value) == [name |-> name, value |-> value]

\* str::len of the strings of the model
len(str) ==
    CASE str = "a" -> 1
      [] str = "x" -> 1
      [] str = "v" -> 1
      [] str = "component" -> 9

\* PrintingContext::default()
DefaultContext ==
    [previous_node |-> None, after_node |-> None, parent_nodes |-> <<>>,
     indentation |-> 0, path |-> <<>>]

increase_indentation_by(context, increase) ==
    [context EXCEPT !.indentation = (@ + increase) % 65536]

\* the node before the last of parent_nodes
get_parent(context) ==
    IF Len(context.parent_nodes) >= 2
    THEN context.parent_nodes[Len(context.parent_nodes) - 1]
    ELSE None

\* writer.write_all(bytes): what one call writes
write_all(bytes) == [out |-> <<bytes>>, marks |-> {}]

\* nothing is written
Nothing == [out |-> <<>>, marks |-> {}]

\* the marks of an output that starts behind k elements
shift(marks, k) ==
    {[path |-> m.path, from |-> m.from + k, to |-> m.to + k] : m \in marks}

\* output b written behind output a
behind(a, b) ==
    [out |-> a.out \o b.out,
     marks |-> a.marks \cup shift(b.marks, Len(a.out))]

\* what some calls write one after the other
RECURSIVE in_order(_)
in_order(ws) ==
    IF ws = <<>> THEN Nothing ELSE behind(Head(ws), in_order(Tail(ws)))

\* for _ in 0..n { writer.write_all(bytes) }
write_times(bytes, n) == [out |-> [k \in 1..n |-> bytes], marks |-> {}]

Indent == "    "
CrLf == "\r\n"

print_indentation(context) == write_times(Indent, context.indentation)

\* as print_indentation_if_whitespace_exists_before, but the previous node
\* is not looked at
print_indentation_always(context) == print_indentation(context)

print_indentation_if_whitespace_exists_before(context) ==
    IF context.previous_node.type = "Whitespace"
    THEN print_indentation(context)
    ELSE Nothing

IsTwigBlock(n) == n.type = "TwigBlock"

\* as another_whitespace, but the parent is not looked at
another_whitespace_any_parent(prev, aft, par) ==
    IsTwigBlock(prev) \/ IsTwigBlock(aft)

\* the match of print_whitespace: is another line break printed?
another_whitespace(prev, aft, par) ==
    /\ par.type # "None"
    /\ ~IsTwigBlock(par)
    /\ \/ prev.type # "None" /\ aft.type # "None"
          /\ (IsTwigBlock(prev) \/ IsTwigBlock(aft))
       \/ prev.type = "None" /\ aft.type # "None" /\ IsTwigBlock(aft)
       \/ prev.type # "None" /\ aft.type = "None" /\ IsTwigBlock(prev)

print_whitespace(context) ==
    in_order(<<IF another_whitespace(context.previous_node,
                                     context.after_node, get_parent(context))
               THEN write_all(CrLf) ELSE Nothing,
               write_all(CrLf)>>)

print_plain(plain, context) ==
    in_order(<<print_indentation_if_whitespace_exists_before(context),
               write_all(plain.name)>>)

print_html_comment(comment, context) ==
    in_order(<<print_indentation_if_whitespace_exists_before(context),
               write_all("<!-- "), write_all(comment.name),
               write_all(" -->")>>)

print_vue_block(vue, context) ==
    in_order(<<print_indentation_if_whitespace_exists_before(context),
               write_all("{{ "), write_all(vue.name), write_all(" }}")>>)

print_twig_parent_call(context) ==
    in_order(<<print_indentation_if_whitespace_exists_before(context),
               write_all("{% parent %}")>>)

print_twig_comment(comment, context) ==
    in_order(<<print_indentation_if_whitespace_exists_before(context),
               write_all("{# "), write_all(comment.name), write_all(" #}")>>)

\* 1 + a.name.len() + a.value.as_ref().map(|v| v.len() + 3).unwrap_or(0)
attribute_length(a) ==
    1 + len(a.name) + (IF a.value = <<>> THEN 0 ELSE len(a.value[1]) + 3)

RECURSIVE sum_lengths(_)
sum_lengths(as) ==
    IF as = <<>> THEN 0 ELSE attribute_length(Head(as)) + sum_lengths(Tail(as))

line_length_for_inlined_two_attributes(htag, context) ==
    context.indentation * 4 + 1 + len(htag.name)
        + sum_lengths(SubSeq(htag.attributes, 1,
                             IF Len(htag.attributes) < 2
                             THEN Len(htag.attributes) ELSE 2))
        + (IF htag.self_closed THEN 1 ELSE 0) + 1
        + (IF htag.children # <<>> /\ htag.children[1].type = "Whitespace"
           THEN 0 ELSE 1000)

inline_mode(htag, context) ==
    /\ Len(htag.attributes) <= 2
    /\ line_length_for_inlined_two_attributes(htag, context) <= 120

continuation_indent_mode(htag) == len(htag.name) > 8

\* what stands in front of the attribute at index
attribute_separator(htag, context, index) ==
    IF inline_mode(htag, context) THEN write_all(" ")
    ELSE IF continuation_indent_mode(htag)
    THEN in_order(<<write_all("\n"),
                    print_indentation(increase_indentation_by(context, 2))>>)
    ELSE IF index = 1 THEN write_all(" ")
    ELSE in_order(<<write_all("\n"), print_indentation(context),
                    write_times(" ", len(htag.name) + 2)>>)

attribute_value(a) ==
    IF a.value = <<>> THEN Nothing
    ELSE in_order(<<write_all("=\""), write_all(a.value[1]),
                    write_all("\"")>>)

\* for (index, attribute) in tag.attributes.iter().enumerate()
print_attributes(htag, context) ==
    in_order([index \in DOMAIN htag.attributes |->
                 in_order(<<attribute_separator(htag, context, index),
                            write_all(htag.attributes[index].name),
                            attribute_value(htag.attributes[index])>>)])

\* if let Some(HtmlNode::Whitespace) = children.last() { print_indentation }
indent_closing(children, context) ==
    IF children # <<>> /\ children[Len(children)].type = "Whitespace"
    THEN print_indentation(context)
    ELSE Nothing

RECURSIVE print_node(_, _), print_node_list(_, _)

print_tag(htag, context) ==
    in_order(<<print_indentation_if_whitespace_exists_before(context),
               write_all("<"), write_all(htag.name),
               print_attributes(htag, context),
               IF htag.self_closed THEN write_all("/>")
               ELSE in_order(<<write_all(">"),
                               print_node_list(
                                   htag.children,
                                   increase_indentation_by(context, 1))>>),
               indent_closing(htag.children, context),
               IF htag.self_closed THEN Nothing
               ELSE in_order(<<write_all("</"), write_all(htag.name),
                               write_all(">")>>)>>)

print_twig_block(twig, context) ==
    in_order(<<print_indentation_if_whitespace_exists_before(context),
               write_all("{% block "), write_all(twig.name),
               write_all(" %}"),
               print_node_list(twig.children,
                               increase_indentation_by(context, 1)),
               indent_closing(twig.children, context),
               write_all("{% endblock %}")>>)

\* the output w of the node at context.path, marked as such
mark(w, context) ==
    [w EXCEPT !.marks = @ \cup {[path |-> context.path, from |-> 1,
                                 to |-> Len(w.out) + 1]}]

\* context.parent_nodes.push(&node)
push_parent(context, n) == [context EXCEPT !.parent_nodes = Append(@, n)]

print_kind(n, context) ==
    CASE n.type = "Root" -> print_node_list(n.children, context)
      [] n.type = "Tag" -> print_tag(n, context)
      [] n.type = "Plain" -> print_plain(n, context)
      [] n.type = "Comment" -> print_html_comment(n, context)
      [] n.type = "VueBlock" -> print_vue_block(n, context)
      [] n.type = "TwigBlock" -> print_twig_block(n, context)
      [] n.type = "TwigParentCall" -> print_twig_parent_call(context)
      [] n.type = "TwigComment" -> print_twig_comment(n, context)
      [] n.type = "Whitespace" -> print_whitespace(context)

print_node(n, context) == mark(print_kind(n, push_parent(context, n)), context)

\* the context print_node_list makes for the node at idx
context_at(nodes, context, idx) ==
    [previous_node |-> IF idx > 1 THEN nodes[idx - 1] ELSE None,
     after_node |-> IF idx < Len(nodes) THEN nodes[idx + 1] ELSE None,
     parent_nodes |-> context.parent_nodes,
     indentation |-> context.indentation,
     path |-> Append(context.path, idx)]

\* for idx in 0..nodes.len() { print_node(writer, current, &mut context) }
print_node_list(nodes, context) ==
    in_order([idx \in DOMAIN nodes |->
                 print_node(nodes[idx], context_at(nodes, context, idx))])

\* Cursor::new(Vec::new())
NewWriter == Nothing

\* nodes without children
Leaves == {Whitespace, Plain, TwigBlock(<<>>), TagOf(<<>>)}

\* the other nodes without children: comments, a Vue block, a parent call,
\* self-closed tags and tags with attributes
OtherLeaves ==
    {Comment, VueBlockNode, TwigParentCall, TwigComment,
     HtmlNode("Tag", "a", <<>>, TRUE, <<>>),
     HtmlNode("Tag", "a", <<HtmlAttribute("a", <<"v">>)>>, TRUE, <<>>),
     HtmlNode("Tag", "a",
              <<HtmlAttribute("a", <<"v">>), HtmlAttribute("a", <<>>),
                HtmlAttribute("a", <<>>)>>,
              FALSE, <<>>),
     HtmlNode("Tag", "component",
              <<HtmlAttribute("a", <<"v">>), HtmlAttribute("a", <<>>)>>,
              FALSE, <<>>)}

Containers == {TagOf(<<>>), TwigBlock(<<>>)}

WithChildren(c, children) == [c EXCEPT !.children = children]

\* a htag or a block with up to MaxSiblings leaves as children
Flat == {WithChildren(c, cs) : c \in Containers,
                              cs \in SeqsUpTo(Leaves, MaxSiblings)}

\* a node between two Whitespace nodes in a container of a container, the
\* inner one with a first attribute and Whitespace as its first child too,
\* followed by Whitespace and two nodes that have none between them
Nested ==
    {WithChildren(c1, <<Whitespace,
                        WithChildren(c2, <<Whitespace, n, Whitespace>>),
                        Whitespace, n2, Plain>>) :
        c1 \in Containers,
        c2 \in Containers \cup
                 {HtmlNode("Tag", "a", <<HtmlAttribute("a", <<"v">>)>>,
                           FALSE, <<>>)},
        n \in Leaves \cup OtherLeaves,
        n2 \in {Plain, TwigBlock(<<>>)}}

\* the trees print_node is called with: a Root as write_tree has it, or a
\* node of its own as in the tests
HtmlTrees ==
    {Root(cs) : cs \in SeqsUpTo(Leaves, MaxSiblings)}
        \cup {Root(<<n>>) : n \in Flat \cup Nested}
        \cup Flat \cup Nested \cup {Whitespace}

WriterInit ==
    /\ node \in HtmlTrees
    /\ writer = NewWriter
    /\ pc = "tree"
    /\ input = <<>>
    /\ res = <<>>
    /\ tokens = <<>>
    /\ trivia = {}
    /\ p = NewParser
    /\ tree = <<>>
    /\ NoLint
    /\ NoPipeline

\* write_tree: print_node(&mut writer, &tree, &mut PrintingContext::default())
PrintNode ==
    /\ pc = "tree"
    /\ writer' = behind(writer, print_node(node, DefaultContext))
    /\ pc' = "written"
    /\ UNCHANGED <<tokens, trivia, p, tree, lintVars, pipeVars, input, res,
                   node>>

WriterNext == PrintNode

WriterSpec == WriterInit /\ [][WriterNext]_vars

----------------------------------------------------------------------------
(* C25, C26: indentation and line breaks in the output of print_node.      *)

\* the node at a path below n
RECURSIVE NodeAt(_, _)
NodeAt(n, path) ==
    IF path = <<>> THEN n ELSE NodeAt(n.children[Head(path)], Tail(path))

ParentPath(path) == SubSeq(path, 1, Len(path) - 1)

\* the sibling of the node at path that stands k places behind it
Sibling(path, k) ==
    IF path = <<>> THEN None
    ELSE LET siblings == NodeAt(node, ParentPath(path)).children
             idx == path[Len(path)] + k
         IN  IF idx \in DOMAIN siblings THEN siblings[idx] ELSE None

ParentOf(path) ==
    IF path = <<>> THEN None ELSE NodeAt(node, ParentPath(path))

\* d: the Tag and TwigBlock ancestors of the node at path
TagDepth(path) ==
    Cardinality({k \in 0..(Len(path) - 1) :
                    NodeAt(node, SubSeq(path, 1, k)).type
                        \in {"Tag", "TwigBlock"}})

\* the number of indentation units written directly in front of element i
RECURSIVE Preceding(_)
Preceding(i) ==
    IF i > 1 /\ writer.out[i - 1] = Indent THEN 1 + Preceding(i - 1) ELSE 0

\* the first element of the output of mark m that is no indentation unit
Own(m) ==
    CHOOSE i \in m.from..m.to :
        /\ \A k \in m.from..(i - 1) : writer.out[k] = Indent
        /\ i < m.to => writer.out[i] # Indent

\* where the closing tag or the endblock of the element of mark m starts
Closer(m) == m.to - (IF NodeAt(node, m.path).type = "Tag" THEN 3 ELSE 1)

IndentedKinds ==
    {"Tag", "TwigBlock", "Plain", "Comment", "VueBlock", "TwigParentCall",
     "TwigComment"}

HasClosing(n) == n.type \in {"Tag", "TwigBlock"} /\ ~n.self_closed

LastIsWhitespace(n) ==
    n.children # <<>> /\ n.children[Len(n.children)].type = "Whitespace"

\* the indentation of the node of mark m is as C25 states
IndentationOf(m) ==
    IF Sibling(m.path, -1).type = "Whitespace"
    THEN /\ Preceding(Own(m)) = TagDepth(m.path)
         /\ Own(m) - m.from = TagDepth(m.path)
         /\ writer.out[m.from - 1] = CrLf
    ELSE Preceding(Own(m)) = 0

MarkOf(path) == CHOOSE m \in writer.marks : m.path = path

\* the line breaks C26 states for the Whitespace node at path
LineBreaksOf(path) ==
    IF /\ path # <<>>
       /\ ~IsTwigBlock(ParentOf(path))
       /\ IsTwigBlock(Sibling(path, -1)) \/ IsTwigBlock(Sibling(path, 1))
    THEN 2 ELSE 1

\* the children of the node of mark m were printed one directly behind the
\* other, the first directly behind the opening
Contiguous(m) ==
    LET n == NodeAt(node, m.path)
    IN  \A k \in DOMAIN n.children :
            MarkOf(Append(m.path, k)).from =
                IF k > 1 THEN MarkOf(Append(m.path, k - 1)).to
                ELSE IF n.type = "Root" THEN m.from
                ELSE 1 + CHOOSE i \in m.from..m.to :
                             /\ writer.out[i] \in {">", " %}"}
                             /\ \A j \in m.from..(i - 1) :
                                    writer.out[j] \notin {">", " %}"}

\* C26 (writer line breaks): a Whitespace node is printed as one "\r\n",
\* and as two exactly if it has a parent that is no TwigBlock and its
\* previous or its next sibling is a TwigBlock; children follow the opening
\* and each other directly, and no "\r\n" comes from anything but a
\* Whitespace node.
C26_WriterLineBreaks ==
    pc = "written" =>
        /\ \A m \in writer.marks :
              /\ NodeAt(node, m.path).type = "Whitespace" =>
                    /\ m.to - m.from = LineBreaksOf(m.path)
                    /\ \A i \in m.from..(m.to - 1) : writer.out[i] = CrLf
              /\ ~NodeAt(node, m.path).self_closed => Contiguous(m)
        /\ \A i \in DOMAIN writer.out :
              writer.out[i] = CrLf =>
                  \E m \in writer.marks :
                      /\ NodeAt(node, m.path).type = "Whitespace"
                      /\ i \in m.from..(m.to - 1)

\* a Whitespace node between two blocks in a tag was printed as two line
\* breaks, one between two blocks in a block as one, and one without a
\* parent as one
C26_Witness ==
    /\ pc = "written"
    /\ \E m, k \in writer.marks :
          /\ NodeAt(node, m.path).type = "Whitespace"
          /\ IsTwigBlock(Sibling(m.path, -1))
          /\ IsTwigBlock(Sibling(m.path, 1))
          /\ ParentOf(m.path).type = "Tag"
          /\ m.to - m.from = 2
          /\ NodeAt(node, k.path).type = "Whitespace"
          /\ IsTwigBlock(Sibling(k.path, -1))
          /\ IsTwigBlock(ParentOf(k.path))
          /\ k.to - k.from = 1

============================================================================
